---------------------------- MODULE Spec2Model ----------------------------
(***************************************************************************)
(* Model of the cryo-cooler controller: the serial protocol client         *)
(* (cryo_cooler_controller_lib/src/lib.rs), the polling driver             *)
(* (cryo_cooler_controller/src/running.rs, main.rs) and the telemetry      *)
(* windows (cryo_cooler_controller/src/charts.rs).                         *)
(*                                                                         *)
(* The device and the operating system are the environment.  Every         *)
(* handler is one atomic action; what the environment answers during the   *)
(* handler is a script drawn with \E: one entry per serial exchange         *)
(* (does the write succeed, does the 8-byte read succeed, which 8 bytes    *)
(* arrive) and one entry per attempt to open the serial port.  The code's  *)
(* functions are operators that thread a machine record m through the      *)
(* calls, in the order the code makes them:                                *)
(*   m.port, m.port_ident  the fields of Tec (port = 0: no Tec)            *)
(*   m.handles             the serial handles currently open               *)
(*   m.io                  the log of the I/O calls made so far            *)
(*   m.s, m.o              what is left of the exchange / open scripts     *)
(* and return [ok, val, err, m], Rust's Result plus the machine after.     *)
(***************************************************************************)
EXTENDS Integers, Sequences, FiniteSets, TLC

VARIABLES
    state,            \* CryoCoolerController.state: "Start", "Home", "Running"
    port,             \* Tec.port: the open serial handle (0: no Tec)
    port_ident,       \* Tec.port_ident
    handles,          \* the serial handles the process holds open
    tec_status,       \* RunningState.tec_status (bits of TecStatus)
    last_sample_time, \* RunningState.last_sample_time (Instant, ms)
    error_text,       \* error_text of the current state object
    chart,            \* RunningState.chart: metric -> MonitoringChartf32
    app_settings,     \* AppSettings.settings
    files,            \* the settings directory: file name -> content
    selected_port,    \* HomeState.selected_port
    versions,         \* RunningState: firmware and hardware version
    instant,          \* the monotonic clock (std::time::Instant), ms
    utc,              \* the wall clock (chrono::Utc), ms
    hist              \* the last handler: its name, inputs, I/O log, result

vars == <<state, port, port_ident, handles, tec_status, last_sample_time,
          error_text, chart, app_settings, files, selected_port, versions,
          instant, utc, hist>>

-----------------------------------------------------------------------------
(* Bit arithmetic on naturals.                                              *)

RECURSIVE BitXor(_, _)
BitXor(a, b) ==
    IF a = 0 THEN b
    ELSE IF b = 0 THEN a
    ELSE (((a % 2) + (b % 2)) % 2) + 2 * BitXor(a \div 2, b \div 2)

RECURSIVE Pow2(_)
Pow2(n) == IF n = 0 THEN 1 ELSE 2 * Pow2(n - 1)

Byte == 0 .. 255

-----------------------------------------------------------------------------
(* CRC-16/XMODEM: width 16, poly 0x1021, init 0, no reflection, xorout 0.   *)

RECURSIVE CrcShift(_, _)
CrcShift(crc, n) ==
    IF n = 0 THEN crc
    ELSE CrcShift(IF crc >= 32768
                  THEN BitXor((crc * 2) % 65536, 4129)
                  ELSE crc * 2,
                  n - 1)

\* The table of the byte-wise algorithm, and xor on bytes as a table.
CrcTable == [b \in Byte |-> CrcShift(b * 256, 8)]
XorByte == [a \in Byte |-> [b \in Byte |-> BitXor(a, b)]]

\* crc' = (crc << 8) ^ table[(crc >> 8) ^ byte], on 16 bits.
RECURSIVE CrcFrom(_, _)
CrcFrom(crc, bytes) ==
    IF bytes = <<>> THEN crc
    ELSE LET t == CrcTable[XorByte[crc \div 256][Head(bytes)]]
         IN  CrcFrom(XorByte[crc % 256][t \div 256] * 256 + (t % 256),
                     Tail(bytes))

CRC_16_XMODEM(bytes) == CrcFrom(0, bytes)

-----------------------------------------------------------------------------
(* The command table (mod commands).                                        *)

HEART_BEAT == 0
GET_TEC_TEMPERATURE == 1
GET_HUMIDITY == 2
GET_DEW_POINT == 3
GET_SET_POINT_OFFSET == 4
GET_P_COEFFICIENT == 5
GET_I_COEFFICIENT == 6
GET_D_COEFFICIENT == 7
GET_TEC_POWERLEVEL == 8
GET_HW_VERSION == 9
GET_FW_VERSION == 10
GET_BOARD_TEMP == 31
GET_TEC_VOLTAGE == 35
GET_TEC_CURRENT == 36
SET_POINT_OFFSET == 20
SET_P_COEFFICIENT == 21
SET_I_COEFFICIENT == 22
SET_D_COEFFICIENT == 23
SET_DISABLE_NOT_ENABLE == 24
SET_TEC_POWER_LEVEL == 29
SET_RESET_BOARD == 30

\* The op-codes the client's public operations put into a Request.
ClientOps ==
    {HEART_BEAT, GET_TEC_TEMPERATURE, GET_HUMIDITY, GET_DEW_POINT,
     GET_SET_POINT_OFFSET, GET_P_COEFFICIENT, GET_I_COEFFICIENT,
     GET_D_COEFFICIENT, GET_TEC_POWERLEVEL, GET_HW_VERSION, GET_FW_VERSION,
     GET_BOARD_TEMP, GET_TEC_VOLTAGE, GET_TEC_CURRENT, SET_POINT_OFFSET,
     SET_P_COEFFICIENT, SET_I_COEFFICIENT, SET_D_COEFFICIENT,
     SET_DISABLE_NOT_ENABLE, SET_TEC_POWER_LEVEL, SET_RESET_BOARD}

Zero4 == <<0, 0, 0, 0>>

-----------------------------------------------------------------------------
(* Frame codec.                                                             *)

Request_new(op_code, data) ==
    LET buffer == <<170, op_code, data[1], data[2], data[3], data[4]>>
        crc == CRC_16_XMODEM(buffer)
    IN  [fixed |-> 170, op_code |-> op_code, data |-> data, crc |-> crc]

\* A bug to compare with: the checksum is stored high byte first.
as_bytes_BigEndian(self) ==
    <<self.fixed, self.op_code,
      self.data[1], self.data[2], self.data[3], self.data[4],
      self.crc \div 256, self.crc % 256>>

as_bytes(self) ==
    <<self.fixed, self.op_code,
      self.data[1], self.data[2], self.data[3], self.data[4],
      self.crc % 256, self.crc \div 256>>

\* u16::from_le_bytes
U16FromLe(lo, hi) == lo + 256 * hi

Response_from_bytes(bytes) ==
    [fixed |-> bytes[1],
     op_code |-> bytes[2],
     data |-> SubSeq(bytes, 3, 6),
     crc |-> U16FromLe(bytes[7], bytes[8])]

-----------------------------------------------------------------------------
(* Results and the machine.                                                 *)

Ok(v, m) == [ok |-> TRUE, val |-> v, err |-> "", m |-> m]
Err(e, m) == [ok |-> FALSE, val |-> <<>>, err |-> e, m |-> m]

Log(m, event) == [m EXCEPT !.io = Append(@, event)]

\* u8 addition of the release build (wrapping); the op-codes of the command
\* table stay far below the wrap.
U8Add(a, b) == (a + b) % 256

ERR_OP_CODE == "Response contained incorrect op code"
ERR_CRC == "Response contained incorrect crc"
ERR_WRITE == "write_all failed"
ERR_READ == "read_exact failed"
ERR_OPEN == "serial::open failed"
ERR_CONFIGURE == "reconfigure failed"


-----------------------------------------------------------------------------
(* The transport and the device, seen from the client.  One entry of the    *)
(* exchange script: does write_all succeed (w), does read_exact deliver 8   *)
(* bytes (r), and how the 8 bytes relate to the request that was written    *)
(* (mode), with the payload they carry (data).                              *)

WriteFails == [w |-> FALSE, r |-> FALSE, mode |-> "none", data |-> <<0, 0, 0, 0>>]
ReadFails == [w |-> TRUE, r |-> FALSE, mode |-> "none", data |-> <<0, 0, 0, 0>>]
Answer(mode, data) == [w |-> TRUE, r |-> TRUE, mode |-> mode, data |-> data]

\* The 8 bytes of a frame with the given marker, op-code, payload, checksum.
Frame(fixed, op_code, data, crc) ==
    <<fixed, op_code, data[1], data[2], data[3], data[4],
      crc % 256, crc \div 256>>

\* A frame whose checksum is the CRC of its first six bytes.
Sealed(fixed, op_code, data) ==
    Frame(fixed, op_code, data,
          CRC_16_XMODEM(<<fixed, op_code, data[1], data[2], data[3], data[4]>>))

\* The bytes the client reads after writing `sent`.
DeviceAnswer(e, sent) ==
    LET op == sent[2]
        good == Sealed(170, (op + 127) % 256, e.data)
    IN  CASE e.mode = "reply" -> good
          [] e.mode = "wrong_op" -> Sealed(170, (op + 126) % 256, e.data)
          [] e.mode = "echo" -> sent
          [] e.mode = "bad_crc" -> [good EXCEPT ![7] = XorByte[good[7]][1]]
          [] e.mode = "swapped_crc" -> [good EXCEPT ![7] = good[8], ![8] = good[7]]
          [] e.mode = "wrong_op_bad_crc" ->
                Frame(170, (op + 128) % 256, e.data, (good[7] + 256 * good[8] + 1) % 65536)
          [] e.mode = "bad_marker" -> Sealed(85, (op + 127) % 256, e.data)
          [] e.mode = "literal" -> e.data
          [] OTHER -> <<0, 0, 0, 0, 0, 0, 0, 0>>

-----------------------------------------------------------------------------
(* Tec::send_cmd: one exchange, answered by the head of the script.         *)

\* let x = v; F(x): v is evaluated once and F sees its value.
With(v, F(_)) == CHOOSE y \in {F(x) : x \in {v}} : TRUE

\* The two I/O calls of an exchange, logged: [e, sent, buffer, m1, m2] with
\* m1 the machine after write_all and m2 the machine after read_exact.
Exchange(m, req) ==
    With(Head(m.s), LAMBDA e :
    With(as_bytes(req), LAMBDA sent :
    With(DeviceAnswer(e, sent), LAMBDA buffer :
    With(Log([m EXCEPT !.s = Tail(@)],
             [ev |-> "write", bytes |-> sent, ok |-> e.w]), LAMBDA m1 :
        [e |-> e, buffer |-> buffer, m1 |-> m1,
         m2 |-> Log(m1, [ev |-> "read", ok |-> e.r, buf |-> buffer])]))))

ERR_MARKER == "Response contained incorrect marker"

\* A variant to compare with: the marker byte is checked as well.
send_cmd_Marker(m, request) ==
    With(request, LAMBDA req :
    With(Exchange(m, req), LAMBDA x :
        IF ~x.e.w THEN Err(ERR_WRITE, x.m1)
        ELSE IF ~x.e.r THEN Err(ERR_READ, x.m2)
        ELSE IF x.buffer[1] # 170
             THEN Err(ERR_MARKER, x.m2)
        ELSE IF x.buffer[2] # U8Add(req.op_code, 127)
             THEN Err(ERR_OP_CODE, x.m2)
        ELSE With(CRC_16_XMODEM(SubSeq(x.buffer, 1, 6)), LAMBDA crc :
             With(Response_from_bytes(x.buffer), LAMBDA response :
                 IF response.crc = crc
                 THEN Ok(response, x.m2)
                 ELSE Err(ERR_CRC, x.m2)))))

\* A bug to compare with: the checksum is validated before the op-code.
send_cmd_CrcFirst(m, request) ==
    With(request, LAMBDA req :
    With(Exchange(m, req), LAMBDA x :
    With(Response_from_bytes(x.buffer), LAMBDA response :
        IF ~x.e.w THEN Err(ERR_WRITE, x.m1)
        ELSE IF ~x.e.r THEN Err(ERR_READ, x.m2)
        ELSE IF response.crc # CRC_16_XMODEM(SubSeq(x.buffer, 1, 6))
             THEN Err(ERR_CRC, x.m2)
        ELSE IF x.buffer[2] # U8Add(req.op_code, 127)
             THEN Err(ERR_OP_CODE, x.m2)
        ELSE Ok(response, x.m2))))

\* A bug to compare with: the checksum is decoded but never compared.
send_cmd_NoCrc(m, request) ==
    With(request, LAMBDA req :
    With(Exchange(m, req), LAMBDA x :
        IF ~x.e.w THEN Err(ERR_WRITE, x.m1)
        ELSE IF ~x.e.r THEN Err(ERR_READ, x.m2)
        ELSE IF x.buffer[2] # U8Add(req.op_code, 127)
             THEN Err(ERR_OP_CODE, x.m2)
        ELSE Ok(Response_from_bytes(x.buffer), x.m2)))

send_cmd_Once(m, request) ==
    With(request, LAMBDA req :
    With(Exchange(m, req), LAMBDA x :
        IF ~x.e.w THEN Err(ERR_WRITE, x.m1)
        ELSE IF ~x.e.r THEN Err(ERR_READ, x.m2)
        ELSE IF x.buffer[2] # U8Add(req.op_code, 127)
             THEN Err(ERR_OP_CODE, x.m2)
        ELSE With(CRC_16_XMODEM(SubSeq(x.buffer, 1, 6)), LAMBDA crc :
             With(Response_from_bytes(x.buffer), LAMBDA response :
                 IF response.crc = crc
                 THEN Ok(response, x.m2)
                 ELSE Err(ERR_CRC, x.m2)))))

\* A bug to compare with: a failed exchange is tried a second time.
send_cmd_Retry(m, request) ==
    With(send_cmd_Once(m, request), LAMBDA first :
        IF first.ok THEN first ELSE send_cmd_Once(first.m, request))

\* A bug to compare with: the response op-code is expected at request + 128.
send_cmd_Plus128(m, request) ==
    With(request, LAMBDA req :
    With(Exchange(m, req), LAMBDA x :
        IF ~x.e.w THEN Err(ERR_WRITE, x.m1)
        ELSE IF ~x.e.r THEN Err(ERR_READ, x.m2)
        ELSE IF x.buffer[2] # U8Add(req.op_code, 128)
             THEN Err(ERR_OP_CODE, x.m2)
        ELSE With(CRC_16_XMODEM(SubSeq(x.buffer, 1, 6)), LAMBDA crc :
             With(Response_from_bytes(x.buffer), LAMBDA response :
                 IF response.crc = crc
                 THEN Ok(response, x.m2)
                 ELSE Err(ERR_CRC, x.m2)))))

\* self.port.write_all(..)?; self.port.read_exact(..)?; the op-code check;
\* the checksum check.  A failed read leaves the buffer unspecified and
\* unused; the log records what the device had to say.
send_cmd(m, request) ==
    With(request, LAMBDA req :
    With(Exchange(m, req), LAMBDA x :
        IF ~x.e.w THEN Err(ERR_WRITE, x.m1)
        ELSE IF ~x.e.r THEN Err(ERR_READ, x.m2)
        ELSE IF x.buffer[2] # U8Add(req.op_code, 127)
             THEN Err(ERR_OP_CODE, x.m2)
        ELSE With(CRC_16_XMODEM(SubSeq(x.buffer, 1, 6)), LAMBDA crc :
             With(Response_from_bytes(x.buffer), LAMBDA response :
                 IF response.crc = crc
                 THEN Ok(response, x.m2)
                 ELSE Err(ERR_CRC, x.m2)))))

-----------------------------------------------------------------------------
(* Number conversions.  An f32 is modelled by the integer n with value      *)
(* n / Den; the conversions are IEEE-754 binary32, exact on the values      *)
(* that are multiples of 1/16 with magnitude below 2^24 / Den (what the     *)
(* scripts and settings use) and truncating elsewhere.                      *)

Den == 4 * 20

\* The f32 that is not a number (one stands for all of them), and the
\* comparisons of f32: both are false when an operand is NaN.
NaN == 0 - 2147483647
Less(a, b) == a # NaN /\ b # NaN /\ a < b
LessEq(a, b) == a # NaN /\ b # NaN /\ a <= b

\* The largest e >= 0 with d * 2^e <= a, for a >= d.
RECURSIVE ExpUp(_, _)
ExpUp(a, d) == IF a >= 2 * d THEN 1 + ExpUp(a, 2 * d) ELSE 0

\* The smallest k >= 1 with d <= a * 2^k, for 0 < a < d.
RECURSIVE ExpDown(_, _)
ExpDown(a, d) == IF 2 * a >= d THEN 1 ELSE 1 + ExpDown(2 * a, d)

\* f32::to_le_bytes
F32ToLeBytes(n) ==
    IF n = 0 THEN <<0, 0, 0, 0>>
    ELSE LET sign == IF n < 0 THEN 1 ELSE 0
             a == IF n < 0 THEN 0 - n ELSE n
             e == IF a >= Den THEN ExpUp(a, Den) ELSE 0 - ExpDown(a, Den)
             mant == (a * Pow2(23 - e)) \div Den
             frac == mant - Pow2(23)
             biased == e + 127
         IN  <<frac % 256,
               (frac \div 256) % 256,
               (biased % 2) * 128 + frac \div 65536,
               sign * 128 + biased \div 2>>

\* f32::from_le_bytes
F32FromLeBytes(data) ==
    LET sign == data[4] \div 128
        biased == (data[4] % 128) * 2 + data[3] \div 128
        frac == (data[3] % 128) * 65536 + data[2] * 256 + data[1]
        mag == IF biased = 0 \/ 150 - biased > 30 THEN 0
               ELSE IF biased <= 150
                    THEN ((Pow2(23) + frac) * Den) \div Pow2(150 - biased)
                    ELSE (Pow2(23) + frac) * Den * Pow2(biased - 150)
    IN  IF biased = 255 /\ frac # 0 THEN NaN
        ELSE IF sign = 1 THEN 0 - mag ELSE mag

\* u32::from_le_bytes
U32FromLeBytes(data) ==
    data[1] + 256 * data[2] + 65536 * data[3] + 16777216 * data[4]

\* u32::from_le_bytes(data) & 0b111111111111111111, byte by byte.
Low18(data) == data[1] + 256 * data[2] + 65536 * (data[3] % 4)

-----------------------------------------------------------------------------
(* TecStatus (bitflags over u32).                                           *)

BOARD_INIT == 1
POWER_OK == 2
LOW_POWER_MODE_ACTIVE == 65536
TecStatus_all == Pow2(18) - 1

contains(status, flag) == (status \div flag) % 2 = 1

\* TecStatus::from_bits: None when a bit outside the defined flags is set.
TecStatus_from_bits(bits) ==
    IF bits \div (TecStatus_all + 1) = 0
    THEN [some |-> TRUE, bits |-> bits]
    ELSE [some |-> FALSE, bits |-> 0]

ERR_STATUS == "Tecstatus bit pattern invalid"

-----------------------------------------------------------------------------
(* The serial port.                                                         *)

MaxHandles == 3

NewHandle(open) == CHOOSE h \in 1 .. MaxHandles + 1 :
                       h \notin open /\ \A g \in 1 .. h - 1 : g \in open

SerialSettings ==
    [baud_rate |-> 115200, char_size |-> 8, stop_bits |-> 1,
     parity |-> "ParityNone", flow_control |-> "FlowNone"]

\* serial::open(..)?; port.reconfigure(..)?; a port that fails to configure
\* is dropped, which closes it.  The head of the open script decides.  The
\* open event records the handles the process holds when it opens (held).
open_serial_port(m, serial_port) ==
    With(Head(m.o), LAMBDA o :
    With(NewHandle(m.handles), LAMBDA h :
    With([m EXCEPT !.o = Tail(@)], LAMBDA m0 :
    With(Log([m0 EXCEPT !.handles = @ \cup {h}],
             [ev |-> "open", path |-> serial_port, ok |-> TRUE, handle |-> h,
              held |-> m.handles]),
         LAMBDA opened :
        IF o = "open_fails"
        THEN Err(ERR_OPEN, Log(m0, [ev |-> "open", path |-> serial_port,
                                    ok |-> FALSE, handle |-> 0,
                                    held |-> m.handles]))
        ELSE IF o = "configure_fails"
        THEN Err(ERR_CONFIGURE,
                 Log(Log([opened EXCEPT !.handles = @ \ {h}],
                         [ev |-> "reconfigure", handle |-> h, ok |-> FALSE,
                          settings |-> SerialSettings]),
                     [ev |-> "close", handle |-> h]))
        ELSE Ok(h, Log(opened, [ev |-> "reconfigure", handle |-> h, ok |-> TRUE,
                                settings |-> SerialSettings]))))))

\* A bug to compare with: the handle held is closed before the port is
\* opened again, and stays closed when the opening fails.
reset_connection_CloseFirst(m) ==
    With(Log([m EXCEPT !.handles = @ \ {m.port}],
             [ev |-> "close", handle |-> m.port]), LAMBDA closed :
    With(open_serial_port(closed, m.port_ident), LAMBDA r :
        IF ~r.ok THEN Err(r.err, r.m)
        ELSE Ok(<<>>, [r.m EXCEPT !.port = r.val])))

\* A bug to compare with: the port is reopened on a fixed path, whatever
\* path the client was opened with.
reset_connection_FixedPath(m) ==
    With(open_serial_port(m, "COM3"), LAMBDA r :
        IF ~r.ok THEN Err(r.err, r.m)
        ELSE Ok(<<>>, Log([r.m EXCEPT !.port = r.val, !.handles = @ \ {m.port}],
                          [ev |-> "close", handle |-> m.port])))

\* self.port = open_serial_port(&self.port_ident)?;  the right-hand side
\* runs first, the assignment then drops (closes) the handle held before.
reset_connection(m) ==
    With(open_serial_port(m, m.port_ident), LAMBDA r :
        IF ~r.ok THEN Err(r.err, r.m)
        ELSE Ok(<<>>, Log([r.m EXCEPT !.port = r.val, !.handles = @ \ {m.port}],
                          [ev |-> "close", handle |-> m.port])))

\* Dropping a Tec closes its port.
DropTec(m) ==
    Log([m EXCEPT !.handles = @ \ {m.port}, !.port = 0, !.port_ident = ""],
        [ev |-> "close", handle |-> m.port])

-----------------------------------------------------------------------------
(* The client's operations.  `?` is the IF ~r.ok THEN Err(..) of each step. *)

reset(m) ==
    With(send_cmd(m, Request_new(SET_RESET_BOARD, Zero4)), LAMBDA r :
        IF ~r.ok THEN Err(r.err, r.m) ELSE Ok(<<>>, r.m))

\* A bug to compare with: the mask keeps 16 bits.
heart_beat_Mask16(m) ==
    With(send_cmd(m, Request_new(HEART_BEAT, Zero4)), LAMBDA response :
        IF ~response.ok THEN Err(response.err, response.m)
        ELSE Ok(response.val.data[1] + 256 * response.val.data[2], response.m))

\* A bug to compare with: the status is decoded without the mask, so that
\* a bit above bit 17 is a bit pattern from_bits rejects.
heart_beat_Strict(m) ==
    With(send_cmd(m, Request_new(HEART_BEAT, Zero4)), LAMBDA response :
        IF ~response.ok THEN Err(response.err, response.m)
        ELSE IF response.val.data[4] # 0 \/ response.val.data[3] >= 4
             THEN Err(ERR_STATUS, response.m)
             ELSE Ok(Low18(response.val.data), response.m))

heart_beat(m) ==
    With(send_cmd(m, Request_new(HEART_BEAT, Zero4)), LAMBDA response :
        IF ~response.ok THEN Err(response.err, response.m)
        ELSE With(TecStatus_from_bits(Low18(response.val.data)), LAMBDA status :
                 IF status.some
                 THEN Ok(status.bits, response.m)
                 ELSE Err(ERR_STATUS, response.m)))

\* A getter that decodes the payload as a little-endian f32.
GetF32(m, op_code) ==
    With(send_cmd(m, Request_new(op_code, Zero4)), LAMBDA response :
        IF ~response.ok THEN Err(response.err, response.m)
        ELSE Ok(F32FromLeBytes(response.val.data), response.m))

humidity(m) == GetF32(m, GET_HUMIDITY)
tec_temperature(m) == GetF32(m, GET_TEC_TEMPERATURE)
\* A bug to compare with: the board temperature is asked for with the
\* op-code of the NTC coefficient (0x1B).
board_temperature_Ntc(m) == GetF32(m, 27)
board_temperature(m) == GetF32(m, GET_BOARD_TEMP)
dew_point_temperature(m) == GetF32(m, GET_DEW_POINT)
p_coefficient(m) == GetF32(m, GET_P_COEFFICIENT)
i_coefficient(m) == GetF32(m, GET_I_COEFFICIENT)
d_coefficient(m) == GetF32(m, GET_D_COEFFICIENT)

\* u32 as f32 / 21.1
tec_voltage(m) ==
    With(send_cmd(m, Request_new(GET_TEC_VOLTAGE, Zero4)), LAMBDA response :
        IF ~response.ok THEN Err(response.err, response.m)
        ELSE Ok((U32FromLeBytes(response.val.data) * Den * 10) \div 211,
                response.m))

\* u32 as f32 / 4.6545
tec_current(m) ==
    With(send_cmd(m, Request_new(GET_TEC_CURRENT, Zero4)), LAMBDA response :
        IF ~response.ok THEN Err(response.err, response.m)
        ELSE Ok((U32FromLeBytes(response.val.data) * Den * 10000) \div 46545,
                response.m))

tec_power_level(m) ==
    With(send_cmd(m, Request_new(GET_TEC_POWERLEVEL, Zero4)), LAMBDA response :
        IF ~response.ok THEN Err(response.err, response.m)
        ELSE Ok(response.val.data[1], response.m))

\* u32 as f32
setpoint_offset(m) ==
    With(send_cmd(m, Request_new(GET_SET_POINT_OFFSET, Zero4)), LAMBDA response :
        IF ~response.ok THEN Err(response.err, response.m)
        ELSE Ok(U32FromLeBytes(response.val.data) * Den, response.m))

hw_version(m) ==
    With(send_cmd(m, Request_new(GET_HW_VERSION, Zero4)), LAMBDA response :
        IF ~response.ok THEN Err(response.err, response.m)
        ELSE Ok(U32FromLeBytes(response.val.data), response.m))

fw_version(m) ==
    With(send_cmd(m, Request_new(GET_FW_VERSION, Zero4)), LAMBDA response :
        IF ~response.ok THEN Err(response.err, response.m)
        ELSE Ok(response.val.data, response.m))

\* A bug to compare with: a failed humidity read is replaced by 0 and the
\* snapshot is completed.
monitor_Partial(m) ==
    With(tec_temperature(Log(m, [ev |-> "Utc::now", t |-> m.utc])), LAMBDA r1 :
    IF ~r1.ok THEN Err(r1.err, r1.m) ELSE
    With(board_temperature(r1.m), LAMBDA r2 :
    IF ~r2.ok THEN Err(r2.err, r2.m) ELSE
    With(humidity(r2.m), LAMBDA r3 :
    With(dew_point_temperature(r3.m), LAMBDA r4 :
    IF ~r4.ok THEN Err(r4.err, r4.m) ELSE
    With(tec_voltage(r4.m), LAMBDA r5 :
    IF ~r5.ok THEN Err(r5.err, r5.m) ELSE
    With(tec_current(r5.m), LAMBDA r6 :
    IF ~r6.ok THEN Err(r6.err, r6.m) ELSE
    With(tec_power_level(r6.m), LAMBDA r7 :
    IF ~r7.ok THEN Err(r7.err, r7.m) ELSE
    Ok([timestamp |-> m.utc,
        tec_temperature |-> r1.val,
        pcb_temperature |-> r2.val,
        humidity |-> IF r3.ok THEN r3.val ELSE 0,
        dew_point_temperature |-> r4.val,
        tec_voltage |-> r5.val,
        tec_current |-> r6.val,
        tec_power_level |-> r7.val], r7.m))))))))

\* A bug to compare with: the timestamp is taken when the reads are done.
monitor_StampLast(m) ==
    With(tec_temperature(m), LAMBDA r1 :
    IF ~r1.ok THEN Err(r1.err, r1.m) ELSE
    With(board_temperature(r1.m), LAMBDA r2 :
    IF ~r2.ok THEN Err(r2.err, r2.m) ELSE
    With(humidity(r2.m), LAMBDA r3 :
    IF ~r3.ok THEN Err(r3.err, r3.m) ELSE
    With(dew_point_temperature(r3.m), LAMBDA r4 :
    IF ~r4.ok THEN Err(r4.err, r4.m) ELSE
    With(tec_voltage(r4.m), LAMBDA r5 :
    IF ~r5.ok THEN Err(r5.err, r5.m) ELSE
    With(tec_current(r5.m), LAMBDA r6 :
    IF ~r6.ok THEN Err(r6.err, r6.m) ELSE
    With(tec_power_level(r6.m), LAMBDA r7 :
    IF ~r7.ok THEN Err(r7.err, r7.m) ELSE
    Ok([timestamp |-> m.utc,
        tec_temperature |-> r1.val,
        pcb_temperature |-> r2.val,
        humidity |-> r3.val,
        dew_point_temperature |-> r4.val,
        tec_voltage |-> r5.val,
        tec_current |-> r6.val,
        tec_power_level |-> r7.val],
       Log(r7.m, [ev |-> "Utc::now", t |-> m.utc])))))))))

\* The fields of the struct expression are evaluated in the order written:
\* Utc::now() first, then the seven reads, each with `?`.
monitor(m) ==
    With(tec_temperature(Log(m, [ev |-> "Utc::now", t |-> m.utc])), LAMBDA r1 :
    IF ~r1.ok THEN Err(r1.err, r1.m) ELSE
    With(board_temperature(r1.m), LAMBDA r2 :
    IF ~r2.ok THEN Err(r2.err, r2.m) ELSE
    With(humidity(r2.m), LAMBDA r3 :
    IF ~r3.ok THEN Err(r3.err, r3.m) ELSE
    With(dew_point_temperature(r3.m), LAMBDA r4 :
    IF ~r4.ok THEN Err(r4.err, r4.m) ELSE
    With(tec_voltage(r4.m), LAMBDA r5 :
    IF ~r5.ok THEN Err(r5.err, r5.m) ELSE
    With(tec_current(r5.m), LAMBDA r6 :
    IF ~r6.ok THEN Err(r6.err, r6.m) ELSE
    With(tec_power_level(r6.m), LAMBDA r7 :
    IF ~r7.ok THEN Err(r7.err, r7.m) ELSE
    Ok([timestamp |-> m.utc,
        tec_temperature |-> r1.val,
        pcb_temperature |-> r2.val,
        humidity |-> r3.val,
        dew_point_temperature |-> r4.val,
        tec_voltage |-> r5.val,
        tec_current |-> r6.val,
        tec_power_level |-> r7.val], r7.m))))))))

set_setpoint_offset(m, setpoint) ==
    With(send_cmd(m, Request_new(SET_POINT_OFFSET, F32ToLeBytes(setpoint))),
         LAMBDA r : IF ~r.ok THEN Err(r.err, r.m) ELSE Ok(<<>>, r.m))

set_power_level(m, power_level) ==
    With(send_cmd(m, Request_new(SET_TEC_POWER_LEVEL, <<power_level, 0, 0, 0>>)),
         LAMBDA r : IF ~r.ok THEN Err(r.err, r.m) ELSE Ok(<<>>, r.m))

set_pid(m, p, i, d) ==
    With(send_cmd(m, Request_new(SET_P_COEFFICIENT, F32ToLeBytes(p))), LAMBDA r1 :
    IF ~r1.ok THEN Err(r1.err, r1.m) ELSE
    With(send_cmd(r1.m, Request_new(SET_I_COEFFICIENT, F32ToLeBytes(i))), LAMBDA r2 :
    IF ~r2.ok THEN Err(r2.err, r2.m) ELSE
    With(send_cmd(r2.m, Request_new(SET_D_COEFFICIENT, F32ToLeBytes(d))), LAMBDA r3 :
    IF ~r3.ok THEN Err(r3.err, r3.m) ELSE
    Ok(<<>>, r3.m))))

\* A bug to compare with: the controller is armed before its parameters
\* are written.
enable_ArmFirst(m, p, i, d, power_level, setpoint) ==
    With(send_cmd(m, Request_new(SET_DISABLE_NOT_ENABLE, <<0, 0, 0, 0>>)), LAMBDA r4 :
    IF ~r4.ok THEN Err(r4.err, r4.m) ELSE
    With(set_power_level(r4.m, power_level), LAMBDA r1 :
    IF ~r1.ok THEN Err(r1.err, r1.m) ELSE
    With(set_setpoint_offset(r1.m, setpoint), LAMBDA r2 :
    IF ~r2.ok THEN Err(r2.err, r2.m) ELSE
    With(set_pid(r2.m, p, i, d), LAMBDA r3 :
    IF ~r3.ok THEN Err(r3.err, r3.m) ELSE
    Ok(<<>>, r3.m)))))

\* A bug to compare with: a failure of set_pid is reported only after the
\* arming command has been sent as well.
enable_KeepGoing(m, p, i, d, power_level, setpoint) ==
    With(set_power_level(m, power_level), LAMBDA r1 :
    IF ~r1.ok THEN Err(r1.err, r1.m) ELSE
    With(set_setpoint_offset(r1.m, setpoint), LAMBDA r2 :
    IF ~r2.ok THEN Err(r2.err, r2.m) ELSE
    With(set_pid(r2.m, p, i, d), LAMBDA r3 :
    With(send_cmd(r3.m, Request_new(SET_DISABLE_NOT_ENABLE, <<0, 0, 0, 0>>)), LAMBDA r4 :
    IF ~r3.ok THEN Err(r3.err, r4.m) ELSE
    IF ~r4.ok THEN Err(r4.err, r4.m) ELSE
    Ok(<<>>, r4.m)))))

enable(m, p, i, d, power_level, setpoint) ==
    With(set_power_level(m, power_level), LAMBDA r1 :
    IF ~r1.ok THEN Err(r1.err, r1.m) ELSE
    With(set_setpoint_offset(r1.m, setpoint), LAMBDA r2 :
    IF ~r2.ok THEN Err(r2.err, r2.m) ELSE
    With(set_pid(r2.m, p, i, d), LAMBDA r3 :
    IF ~r3.ok THEN Err(r3.err, r3.m) ELSE
    With(send_cmd(r3.m, Request_new(SET_DISABLE_NOT_ENABLE, <<0, 0, 0, 0>>)), LAMBDA r4 :
    IF ~r4.ok THEN Err(r4.err, r4.m) ELSE
    Ok(<<>>, r4.m)))))

\* A bug to compare with: the flag is sent inverted (the frame that arms).
disable_Inverted(m) ==
    With(send_cmd(m, Request_new(SET_DISABLE_NOT_ENABLE, <<0, 0, 0, 0>>)),
         LAMBDA r : IF ~r.ok THEN Err(r.err, r.m) ELSE Ok(<<>>, r.m))

disable(m) ==
    With(send_cmd(m, Request_new(SET_DISABLE_NOT_ENABLE, <<1, 0, 0, 0>>)),
         LAMBDA r : IF ~r.ok THEN Err(r.err, r.m) ELSE Ok(<<>>, r.m))

\* A bug to compare with: the board is reset whatever its status.
Tec_new_AlwaysReset(m, serial_port) ==
    With(open_serial_port(m, serial_port), LAMBDA port_ :
    IF ~port_.ok THEN Err(port_.err, port_.m) ELSE
    With(heart_beat([port_.m EXCEPT !.port = port_.val,
                                    !.port_ident = serial_port]), LAMBDA status :
    IF ~status.ok THEN Err(status.err, DropTec(status.m)) ELSE
    With(reset(status.m), LAMBDA r :
        IF ~r.ok THEN Err(r.err, DropTec(r.m)) ELSE Ok(<<>>, r.m))))

\* Tec::new: open, heartbeat, reset-board when BOARD_INIT is missing.  An
\* error after the port was opened drops the Tec, which closes the port.
Tec_new(m, serial_port) ==
    With(open_serial_port(m, serial_port), LAMBDA port_ :
    IF ~port_.ok THEN Err(port_.err, port_.m) ELSE
    With(heart_beat([port_.m EXCEPT !.port = port_.val,
                                    !.port_ident = serial_port]), LAMBDA status :
    IF ~status.ok THEN Err(status.err, DropTec(status.m)) ELSE
    IF ~contains(status.val, BOARD_INIT)
    THEN With(reset(status.m), LAMBDA r :
             IF ~r.ok THEN Err(r.err, DropTec(r.m)) ELSE Ok(<<>>, r.m))
    ELSE Ok(<<>>, status.m)))

-----------------------------------------------------------------------------
(* Telemetry windows (MonitoringChartf32) and the ChartGroup.               *)

LIMIT_MS == 300000

MonitoringChartf32_new(data, title, min, max, unit) ==
    [title |-> title, min |-> min, max |-> max, unit |-> unit,
     cache_valid |-> FALSE, data_points |-> data, limit |-> LIMIT_MS]

\* A bug to compare with: the difference is compared as the signed number
\* it is.
AgeExceeds_Signed(cur_ms, back_ms, limit) == cur_ms - back_ms > limit

\* Duration::from_millis((cur_ms - back_ms) as u64) > limit: a negative
\* difference wraps to at least 2^63 ms, which is above any limit.
AgeExceeds(cur_ms, back_ms, limit) ==
    IF cur_ms - back_ms < 0 THEN TRUE ELSE cur_ms - back_ms > limit

\* The eviction loop: pop the back while it is too old.
RECURSIVE EvictBack(_, _, _)
EvictBack(data_points, cur_ms, limit) ==
    IF data_points # <<>>
       /\ AgeExceeds(cur_ms, data_points[Len(data_points)][1], limit)
    THEN EvictBack(SubSeq(data_points, 1, Len(data_points) - 1), cur_ms, limit)
    ELSE data_points

\* A bug to compare with: the margin is a tenth of the span.
Times005_Tenth(x) == x \div 10

\* x * 0.05 on the modelled f32 (exact on multiples of 20 / Den).
Times005(x) == x \div 20

\* A bug to compare with: the cache is cleared only when the picture has to
\* change its scale or lost a sample.
push_data_LazyClear(self, time, value) ==
    LET cur_ms == time
        max1 == IF Less(self.max, value)
                THEN Times005(value - self.min) + value
                ELSE self.max
        min1 == IF Less(value, self.min)
                THEN value - Times005(self.min - value)
                ELSE self.min
        pushed == <<<<time, value>>>> \o self.data_points
        kept == EvictBack(pushed, cur_ms, self.limit)
    IN  [self EXCEPT !.max = max1,
                     !.min = min1,
                     !.data_points = kept,
                     !.cache_valid =
                         IF max1 # self.max \/ min1 # self.min \/ kept # pushed
                         THEN FALSE ELSE @]

\* A bug to compare with: a sample older than the front sample is put
\* behind it.
push_data_ByTime(self, time, value) ==
    LET cur_ms == time
        max1 == IF Less(self.max, value)
                THEN Times005(value - self.min) + value
                ELSE self.max
        min1 == IF Less(value, self.min)
                THEN value - Times005(self.min - value)
                ELSE self.min
        pushed == IF self.data_points # <<>> /\ self.data_points[1][1] > time
                  THEN <<self.data_points[1], <<time, value>>>>
                           \o Tail(self.data_points)
                  ELSE <<<<time, value>>>> \o self.data_points
    IN  [self EXCEPT !.max = max1,
                     !.min = min1,
                     !.data_points = EvictBack(pushed, cur_ms, self.limit),
                     !.cache_valid = FALSE]

\* A bug to compare with: the sample is pushed at the back of the deque.
push_data_PushBack(self, time, value) ==
    LET cur_ms == time
        max1 == IF Less(self.max, value)
                THEN Times005(value - self.min) + value
                ELSE self.max
        min1 == IF Less(value, self.min)
                THEN value - Times005(self.min - value)
                ELSE self.min
        pushed == self.data_points \o <<<<time, value>>>>
    IN  [self EXCEPT !.max = max1,
                     !.min = min1,
                     !.data_points = EvictBack(pushed, cur_ms, self.limit),
                     !.cache_valid = FALSE]

\* A bug to compare with: the upper bound follows every sample, in range
\* or not.
push_data_Fit(self, time, value) ==
    LET cur_ms == time
        max1 == Times005(value - self.min) + value
        min1 == IF Less(value, self.min)
                THEN value - Times005(self.min - value)
                ELSE self.min
        pushed == <<<<time, value>>>> \o self.data_points
    IN  [self EXCEPT !.max = max1,
                     !.min = min1,
                     !.data_points = EvictBack(pushed, cur_ms, self.limit),
                     !.cache_valid = FALSE]

push_data(self, time, value) ==
    LET cur_ms == time
        max1 == IF Less(self.max, value)
                THEN Times005(value - self.min) + value
                ELSE self.max
        min1 == IF Less(value, self.min)
                THEN value - Times005(self.min - value)
                ELSE self.min
        pushed == <<<<time, value>>>> \o self.data_points
    IN  [self EXCEPT !.max = max1,
                     !.min = min1,
                     !.data_points = EvictBack(pushed, cur_ms, self.limit),
                     !.cache_valid = FALSE]

Metrics == {"tec_temp_chart", "pcb_temp_chart", "humidty_chart",
            "dew_point_chart", "tec_voltage_chart", "tec_current_chart",
            "tec_power_chart"}

\* The value ChartGroup::update pushes to each window.
MetricValue(data, c) ==
    CASE c = "tec_temp_chart" -> data.tec_temperature
      [] c = "pcb_temp_chart" -> data.pcb_temperature
      [] c = "humidty_chart" -> data.humidity
      [] c = "dew_point_chart" -> data.dew_point_temperature
      [] c = "tec_voltage_chart" -> data.tec_voltage
      [] c = "tec_current_chart" -> data.tec_current
      [] c = "tec_power_chart" -> data.tec_power_level * Den

ChartGroup_default ==
    [tec_temp_chart |-> MonitoringChartf32_new(<<>>, "TEC Temp", 0, 20 * Den, "C"),
     pcb_temp_chart |-> MonitoringChartf32_new(<<>>, "PCB Temp", 20 * Den, 30 * Den, "C"),
     humidty_chart |-> MonitoringChartf32_new(<<>>, "Humidity", 45 * Den, 55 * Den, "%"),
     dew_point_chart |-> MonitoringChartf32_new(<<>>, "Dew Point", 10 * Den, 20 * Den, "C"),
     tec_voltage_chart |-> MonitoringChartf32_new(<<>>, "TEC Voltage", 11 * Den, 13 * Den, "V"),
     tec_current_chart |-> MonitoringChartf32_new(<<>>, "TEC Current", 0, 10 * Den, "A"),
     tec_power_chart |-> MonitoringChartf32_new(<<>>, "TEC Power Level", 0, 100 * Den, "%")]

\* A bug to compare with: a voltage of 0 is not recorded.
ChartGroup_update_SkipZero(self, data) ==
    [tec_temp_chart |-> push_data(self.tec_temp_chart, data.timestamp, data.tec_temperature),
     pcb_temp_chart |-> push_data(self.pcb_temp_chart, data.timestamp, data.pcb_temperature),
     humidty_chart |-> push_data(self.humidty_chart, data.timestamp, data.humidity),
     dew_point_chart |-> push_data(self.dew_point_chart, data.timestamp, data.dew_point_temperature),
     tec_voltage_chart |-> IF data.tec_voltage = 0 THEN self.tec_voltage_chart
                           ELSE push_data(self.tec_voltage_chart, data.timestamp, data.tec_voltage),
     tec_current_chart |-> push_data(self.tec_current_chart, data.timestamp, data.tec_current),
     tec_power_chart |-> push_data(self.tec_power_chart, data.timestamp, data.tec_power_level * Den)]

ChartGroup_update(self, data) ==
    [tec_temp_chart |-> push_data(self.tec_temp_chart, data.timestamp, data.tec_temperature),
     pcb_temp_chart |-> push_data(self.pcb_temp_chart, data.timestamp, data.pcb_temperature),
     humidty_chart |-> push_data(self.humidty_chart, data.timestamp, data.humidity),
     dew_point_chart |-> push_data(self.dew_point_chart, data.timestamp, data.dew_point_temperature),
     tec_voltage_chart |-> push_data(self.tec_voltage_chart, data.timestamp, data.tec_voltage),
     tec_current_chart |-> push_data(self.tec_current_chart, data.timestamp, data.tec_current),
     tec_power_chart |-> push_data(self.tec_power_chart, data.timestamp, data.tec_power_level * Den)]

\* Chart::draw: renderer.draw_cache(&self.cache, ..) leaves the geometry
\* it drew in the cache.
draw(self) == [self EXCEPT !.cache_valid = TRUE]

\* ChartGroup::view: the seven windows are drawn.
ChartGroup_view(self) ==
    [tec_temp_chart |-> draw(self.tec_temp_chart),
     pcb_temp_chart |-> draw(self.pcb_temp_chart),
     humidty_chart |-> draw(self.humidty_chart),
     dew_point_chart |-> draw(self.dew_point_chart),
     tec_voltage_chart |-> draw(self.tec_voltage_chart),
     tec_current_chart |-> draw(self.tec_current_chart),
     tec_power_chart |-> draw(self.tec_power_chart)]

-----------------------------------------------------------------------------
(* The hover resolver (calc_hover_index).  An Option is a sequence of at    *)
(* most one element: <<>> is None, <<x>> is Some(x).  Pixel positions and   *)
(* widths are whole numbers of pixels.                                      *)

\* usize::MAX, the result of casting +infinity: only its being above every
\* data_size matters (the integers of the model end at 2^31 - 1).
USIZE_MAX == 2147483647

saturating_sub(a, b) == IF b >= a THEN 0 ELSE a - b

\* (((x_pos - bounds_x) * (data_size as f32 / bounds_width)).round()) as
\* usize, for data_size > 0, with d = x_pos - bounds_x.  A zero width makes
\* the factor +infinity and the product +infinity, NaN (d = 0) or
\* -infinity; the cast saturates: NaN and negatives give 0.  round() is
\* half away from zero.
RoundAsUsize(d, data_size, bounds_width) ==
    IF bounds_width = 0
    THEN IF d > 0 THEN USIZE_MAX ELSE 0
    ELSE IF d <= 0 THEN 0
    ELSE (2 * d * data_size + bounds_width) \div (2 * bounds_width)

\* A bug to compare with: the index is not clamped below data_size.
calc_hover_index_NoClamp(x_pos_option, data_size, bounds_width, bounds_x) ==
    IF data_size = 0 THEN <<>>
    ELSE IF x_pos_option # <<>>
    THEN <<saturating_sub(data_size,
                          RoundAsUsize(x_pos_option[1] - bounds_x,
                                       data_size, bounds_width))>>
    ELSE <<>>

\* A bug to compare with: the index counts from the left edge (no
\* inversion).
calc_hover_index_Forward(x_pos_option, data_size, bounds_width, bounds_x) ==
    IF data_size = 0 THEN <<>>
    ELSE IF x_pos_option # <<>>
    THEN LET hover_index == RoundAsUsize(x_pos_option[1] - bounds_x,
                                         data_size, bounds_width)
         IN  <<IF hover_index >= data_size THEN data_size - 1 ELSE hover_index>>
    ELSE <<>>

\* A bug to compare with: no index for a cursor left of the viewport.
calc_hover_index_Inside(x_pos_option, data_size, bounds_width, bounds_x) ==
    IF data_size = 0 THEN <<>>
    ELSE IF x_pos_option # <<>> /\ x_pos_option[1] >= bounds_x
    THEN LET hover_index ==
                 saturating_sub(data_size,
                                RoundAsUsize(x_pos_option[1] - bounds_x,
                                             data_size, bounds_width))
         IN  <<IF hover_index >= data_size THEN data_size - 1 ELSE hover_index>>
    ELSE <<>>

calc_hover_index(x_pos_option, data_size, bounds_width, bounds_x) ==
    IF data_size = 0 THEN <<>>
    ELSE IF x_pos_option # <<>>
    THEN LET hover_index ==
                 saturating_sub(data_size,
                                RoundAsUsize(x_pos_option[1] - bounds_x,
                                             data_size, bounds_width))
         IN  <<IF hover_index >= data_size THEN data_size - 1 ELSE hover_index>>
    ELSE <<>>

-----------------------------------------------------------------------------
(* Settings (in memory) and error texts.                                    *)

Settings_default ==
    [last_port_ident |-> "", open_port_on_startup |-> FALSE,
     p_coef |-> 100 * Den, i_coef |-> 1 * Den, d_coef |-> 1 * Den,
     set_point |-> 2 * Den, max_power |-> 100, enable_on_startup |-> FALSE]

-----------------------------------------------------------------------------
(* Settings on disk.  A JSON value is [t, v]: its type and its value; a     *)
(* file content is [json, version, data]: whether the text is a JSON        *)
(* object, and the values of its "version" and "data" members.  The         *)
(* directory is a function from the names of the files in it to their       *)
(* contents.                                                                *)

SETTINGS_VERSION == 1
SETTINGS_FILE == "cryo_settings.json"
SETTINGS_TEMP_FILE == "cryo_settings_old.json"

JNull == [t |-> "null", v |-> 0]
JBool(b) == [t |-> "bool", v |-> b]
JInt(n) == [t |-> "int", v |-> n]
JFloat(x) == [t |-> "float", v |-> x]
JStr(str) == [t |-> "str", v |-> str]
JObject(members) == [t |-> "object", v |-> members]

\* #[derive(Serialize)] of TecInputs and Settings: None is null, a path is
\* a string, an f32 is a number with a fraction part, a u8 is an integer.
Settings_serialize(settings) ==
    JObject([last_port_ident |-> IF settings.last_port_ident = ""
                                 THEN JNull
                                 ELSE JStr(settings.last_port_ident),
             open_port_on_startup |-> JBool(settings.open_port_on_startup),
             tec_inputs |-> JObject([p_coef |-> JFloat(settings.p_coef),
                                     i_coef |-> JFloat(settings.i_coef),
                                     d_coef |-> JFloat(settings.d_coef),
                                     set_point |-> JFloat(settings.set_point),
                                     max_power |-> JInt(settings.max_power)]),
             enable_on_startup |-> JBool(settings.enable_on_startup)])

\* serde's visitors: an f32 takes any number, a u8 an integer of 0 .. 255.
IsF32(j) == j.t \in {"float", "int"}
AsF32(j) == IF j.t = "int" THEN j.v * Den ELSE j.v
IsU8(j) == j.t = "int" /\ j.v \in 0 .. 255
IsOptionPath(j) == j.t \in {"null", "str"}

\* #[derive(Deserialize)] of TecInputs and Settings.
Settings_deserialize(j) ==
    IF /\ j.t = "object"
       /\ IsOptionPath(j.v.last_port_ident)
       /\ j.v.open_port_on_startup.t = "bool"
       /\ j.v.enable_on_startup.t = "bool"
       /\ j.v.tec_inputs.t = "object"
       /\ IsF32(j.v.tec_inputs.v.p_coef)
       /\ IsF32(j.v.tec_inputs.v.i_coef)
       /\ IsF32(j.v.tec_inputs.v.d_coef)
       /\ IsF32(j.v.tec_inputs.v.set_point)
       /\ IsU8(j.v.tec_inputs.v.max_power)
    THEN [ok |-> TRUE,
          val |-> [last_port_ident |-> IF j.v.last_port_ident.t = "null"
                                       THEN ""
                                       ELSE j.v.last_port_ident.v,
                   open_port_on_startup |-> j.v.open_port_on_startup.v,
                   p_coef |-> AsF32(j.v.tec_inputs.v.p_coef),
                   i_coef |-> AsF32(j.v.tec_inputs.v.i_coef),
                   d_coef |-> AsF32(j.v.tec_inputs.v.d_coef),
                   set_point |-> AsF32(j.v.tec_inputs.v.set_point),
                   max_power |-> j.v.tec_inputs.v.max_power.v,
                   enable_on_startup |-> j.v.enable_on_startup.v]]
    ELSE [ok |-> FALSE, val |-> Settings_default]

\* serde_json::to_writer_pretty(out_file, &PersistentDataV1 { .. })
PersistentDataV1_serialize(settings) ==
    [json |-> TRUE, version |-> JInt(SETTINGS_VERSION),
     data |-> Settings_serialize(settings)]

\* serde_json::from_str::<DeserializeHelper>: a JSON object whose version
\* is an integer that fits a u32.
DeserializeHelper_from_str(file_content) ==
    IF file_content.json /\ file_content.version.t = "int"
       /\ file_content.version.v >= 0
    THEN [ok |-> TRUE, version |-> file_content.version.v]
    ELSE [ok |-> FALSE, version |-> 0]

\* serde_json::from_str::<PersistentDataV1>
PersistentDataV1_from_str(file_content) ==
    IF DeserializeHelper_from_str(file_content).ok
    THEN Settings_deserialize(file_content.data)
    ELSE [ok |-> FALSE, val |-> Settings_default]

\* A text that is not a JSON object (also: a file cut short while written).
NotJson == [json |-> FALSE, version |-> JNull, data |-> JNull]

NoFiles == << >>

RemoveEntry(dir, name) == [n \in DOMAIN dir \ {name} |-> dir[n]]

\* std::fs::rename: fails when `from` does not exist, replaces `to`.
fs_rename(dir, from, to) ==
    IF from \in DOMAIN dir
    THEN (to :> dir[from]) @@ RemoveEntry(dir, from)
    ELSE dir

\* std::fs::remove_file
fs_remove_file(dir, name) == RemoveEntry(dir, name)

TwoDigits(n) == ToString(n \div 10) \o ToString(n % 10)

\* chrono::Utc::now().format("%Y_%m_%d_%H_%M_%S") in the first minute of
\* the epoch; now is in ms.
FormatStamp(now) == "1970_01_01_00_00_" \o TwoDigits((now \div 1000) % 60)

BackupName(now) == "cryo_settings_backup_" \o FormatStamp(now) \o ".json"

\* AppSettings::load_settings: the settings and the directory after.
load_settings(dir, now) ==
    IF SETTINGS_FILE \in DOMAIN dir
    THEN LET file_content == dir[SETTINGS_FILE]
             ser == DeserializeHelper_from_str(file_content)
             v1 == PersistentDataV1_from_str(file_content)
             renamed == fs_rename(dir, SETTINGS_FILE, BackupName(now))
         IN  IF ser.ok
             THEN IF ser.version = 1
                  THEN IF v1.ok
                       THEN [settings |-> v1.val, files |-> dir]
                       ELSE [settings |-> Settings_default, files |-> renamed]
                  ELSE [settings |-> Settings_default, files |-> renamed]
             ELSE [settings |-> Settings_default, files |-> dir]
    ELSE [settings |-> Settings_default, files |-> dir]

\* What the file system does to write_to_disk: the open of the settings
\* file fails, the write to the opened file fails, or both succeed.
WriteOutcomes == {"ok", "open_fails", "write_fails"}

\* A bug to compare with: the temporary file is not removed.
write_to_disk_KeepTemp(settings, dir, outcome) ==
    LET moved == fs_rename(dir, SETTINGS_FILE, SETTINGS_TEMP_FILE)
    IN  IF outcome = "open_fails"
        THEN [ok |-> FALSE,
              files |-> fs_rename(moved, SETTINGS_TEMP_FILE, SETTINGS_FILE)]
        ELSE IF outcome = "write_fails"
        THEN [ok |-> FALSE,
              files |-> fs_rename((SETTINGS_FILE :> NotJson) @@ moved,
                                  SETTINGS_TEMP_FILE, SETTINGS_FILE)]
        ELSE [ok |-> TRUE,
              files |-> (SETTINGS_FILE :> PersistentDataV1_serialize(settings))
                            @@ moved]

\* AppSettings::write_to_disk: the Result and the directory after.  The
\* open creates or truncates the settings file; a failed write leaves it
\* cut short.
write_to_disk(settings, dir, outcome) ==
    LET moved == fs_rename(dir, SETTINGS_FILE, SETTINGS_TEMP_FILE)
    IN  IF outcome = "open_fails"
        THEN [ok |-> FALSE,
              files |-> fs_rename(moved, SETTINGS_TEMP_FILE, SETTINGS_FILE)]
        ELSE IF outcome = "write_fails"
        THEN [ok |-> FALSE,
              files |-> fs_rename((SETTINGS_FILE :> NotJson) @@ moved,
                                  SETTINGS_TEMP_FILE, SETTINGS_FILE)]
        ELSE [ok |-> TRUE,
              files |-> fs_remove_file(
                            (SETTINGS_FILE :> PersistentDataV1_serialize(settings))
                                @@ moved,
                            SETTINGS_TEMP_FILE)]

\* A bug to compare with: the file is written before the field is
\* assigned.
set_value_WriteFirst(settings, dir, field, value, outcome) ==
    IF value # settings[field]
    THEN LET w == write_to_disk(settings, dir, outcome)
         IN  [ok |-> w.ok, settings |-> [settings EXCEPT ![field] = value],
              files |-> w.files]
    ELSE [ok |-> TRUE, settings |-> settings, files |-> dir]

\* set_value!(self, value, settings.<field>): the body of every setter.
set_value(settings, dir, field, value, outcome) ==
    IF value # settings[field]
    THEN LET changed == [settings EXCEPT ![field] = value]
             w == write_to_disk(changed, dir, outcome)
         IN  [ok |-> w.ok, settings |-> changed, files |-> w.files]
    ELSE [ok |-> TRUE, settings |-> settings, files |-> dir]

NoError == [some |-> FALSE, msg |-> "", err |-> ""]
Some(msg, err) == [some |-> TRUE, msg |-> msg, err |-> err]

UPDATE_INTERVALL_MS == 500

-----------------------------------------------------------------------------
(* The polling driver.  rs is the RunningState without its Tec, which is    *)
(* the machine m.                                                           *)

\* RunningState::new
RunningState_new(m, serial_port, settings) ==
    With(Tec_new(m, serial_port), LAMBDA tec :
    IF ~tec.ok THEN Err(tec.err, tec.m) ELSE
    With(fw_version(tec.m), LAMBDA fw :
    IF ~fw.ok THEN Err(fw.err, DropTec(fw.m)) ELSE
    With(hw_version(fw.m), LAMBDA hw :
    IF ~hw.ok THEN Err(hw.err, DropTec(hw.m)) ELSE
    With(heart_beat(hw.m), LAMBDA status :
    IF ~status.ok THEN Err(status.err, DropTec(status.m)) ELSE
    With(IF settings.enable_on_startup
         THEN enable(status.m, settings.p_coef, settings.i_coef,
                     settings.d_coef, settings.max_power, settings.set_point)
         ELSE Ok(<<>>, status.m), LAMBDA en :
    Ok([last_sample_time |-> en.m.instant,
        tec_status |-> status.val,
        versions |-> [firmware_version_major |-> fw.val[1],
                      firmware_version_minor |-> fw.val[2],
                      hardware_version |-> hw.val],
        chart |-> ChartGroup_default,
        error_text |-> IF en.ok THEN NoError
                       ELSE Some("Failed to enable TEC", en.err)],
       IF en.ok THEN en.m
       ELSE Log(en.m, [ev |-> "error_text", msg |-> "Failed to enable TEC",
                       err |-> en.err])))))))

\* RunningState::should_update
should_update(m, rs) == m.instant - rs.last_sample_time > UPDATE_INTERVALL_MS

\* self.error_text = Some(format!(..)); the assignment is logged, so that
\* its place among the I/O calls of the handler can be told.
SetError(m, rs, msg, err) ==
    [m |-> Log(m, [ev |-> "error_text", msg |-> msg, err |-> err]),
     rs |-> [rs EXCEPT !.error_text = Some(msg, err)]]

\* The second half of the Tick: the sample time, then monitor.
Tick_monitor(m, rs) ==
    With([rs EXCEPT !.last_sample_time = m.instant], LAMBDA rs2 :
    With(monitor(m), LAMBDA data :
        IF data.ok
        THEN [m |-> data.m,
              rs |-> [rs2 EXCEPT !.chart = ChartGroup_update(@, data.val)]]
        ELSE SetError(data.m, rs2, "Failed to get data from coooler", data.err)))

\* A bug to compare with: a round that went well takes the error text
\* away.
update_Tick_ClearOnSuccess(m, rs) ==
    IF ~should_update(m, rs) THEN [m |-> m, rs |-> rs] ELSE
    With(heart_beat(m), LAMBDA hb :
        IF hb.ok
        THEN With(Tick_monitor(hb.m, [rs EXCEPT !.tec_status = hb.val]),
                  LAMBDA x :
                      IF x.rs.chart # rs.chart
                      THEN [m |-> x.m, rs |-> [x.rs EXCEPT !.error_text = NoError]]
                      ELSE x)
        ELSE With(reset_connection(hb.m), LAMBDA rc :
                 IF ~rc.ok
                 THEN SetError(rc.m, rs, "Failed to communicate with coooler", rc.err)
                 ELSE With(SetError(rc.m, rs, "Failed to communicate with coooler",
                                    hb.err),
                           LAMBDA x : Tick_monitor(x.m, x.rs))))

\* A bug to compare with: when the port cannot be reopened the display is
\* blanked (status and windows back to their initial values).
update_Tick_Blank(m, rs) ==
    IF ~should_update(m, rs) THEN [m |-> m, rs |-> rs] ELSE
    With(heart_beat(m), LAMBDA hb :
        IF hb.ok
        THEN Tick_monitor(hb.m, [rs EXCEPT !.tec_status = hb.val])
        ELSE With(reset_connection(hb.m), LAMBDA rc :
                 IF ~rc.ok
                 THEN SetError(rc.m, [rs EXCEPT !.tec_status = 0,
                                                !.chart = ChartGroup_default],
                               "Failed to communicate with coooler", rc.err)
                 ELSE With(SetError(rc.m, rs, "Failed to communicate with coooler",
                                    hb.err),
                           LAMBDA x : Tick_monitor(x.m, x.rs))))

\* RunningState::update, Message::Tick
update_Tick(m, rs) ==
    IF ~should_update(m, rs) THEN [m |-> m, rs |-> rs] ELSE
    With(heart_beat(m), LAMBDA hb :
        IF hb.ok
        THEN Tick_monitor(hb.m, [rs EXCEPT !.tec_status = hb.val])
        ELSE With(reset_connection(hb.m), LAMBDA rc :
                 IF ~rc.ok
                 THEN SetError(rc.m, rs, "Failed to communicate with coooler", rc.err)
                 ELSE With(SetError(rc.m, rs, "Failed to communicate with coooler",
                                    hb.err),
                           LAMBDA x : Tick_monitor(x.m, x.rs))))

\* RunningState::update, Message::Enable
update_Enable(m, rs, settings) ==
    With(enable(m, settings.p_coef, settings.i_coef, settings.d_coef,
                settings.max_power, settings.set_point), LAMBDA r :
        IF r.ok THEN [m |-> r.m, rs |-> rs]
        ELSE SetError(r.m, rs, "Failed to enable TEC", r.err))

\* RunningState::update, Message::Disable
update_Disable(m, rs) ==
    With(disable(m), LAMBDA r :
        IF r.ok THEN [m |-> r.m, rs |-> rs]
        ELSE SetError(r.m, rs, "Failed to disable TEC", r.err))

\* A bug to compare with: a changed setting starts the windows afresh.
update_Setting_NewChart(m, rs, settings, dir, field, value, outcome) ==
    With(set_value(settings, dir, field, value, outcome), LAMBDA r :
    With(IF r.ok THEN [m |-> m, rs |-> [rs EXCEPT !.chart = ChartGroup_default]]
         ELSE SetError(m, rs, "Failed to save settings", outcome), LAMBDA x :
        [m |-> x.m, rs |-> x.rs, settings |-> r.settings, files |-> r.files]))

\* RunningState::update, Message::UpdatePCoef, UpdateICoef, UpdateDCoef,
\* UpdateSetpoint, UpdateMaxPower and ApplyStartupCheckboxToggled: the
\* setter of the field, and the error text when the file was not written.
update_Setting(m, rs, settings, dir, field, value, outcome) ==
    With(set_value(settings, dir, field, value, outcome), LAMBDA r :
    With(IF r.ok THEN [m |-> m, rs |-> rs]
         ELSE SetError(m, rs, "Failed to save settings", outcome), LAMBDA x :
        [m |-> x.m, rs |-> x.rs, settings |-> r.settings, files |-> r.files]))

\* RunningState::update, Message::CloseModal
update_CloseModal(m, rs) == [m |-> m, rs |-> [rs EXCEPT !.error_text = NoError]]

-----------------------------------------------------------------------------
(* From the variables to the machine and back.                              *)

Mach(s, o) ==
    [port |-> port, port_ident |-> port_ident, handles |-> handles,
     io |-> <<>>, s |-> s, o |-> o, utc |-> utc, instant |-> instant]

\* What a handler leaves in hist.
Hist(call, args, s, o, r) ==
    [call |-> call, args |-> args, s |-> s, o |-> o,
     io |-> r.m.io, ok |-> r.ok, val |-> r.val, err |-> r.err]

NoHist ==
    [call |-> "", args |-> <<>>, s |-> <<>>, o |-> <<>>,
     io |-> <<>>, ok |-> TRUE, val |-> <<>>, err |-> ""]

driverVars == <<state, tec_status, last_sample_time, error_text, chart,
                app_settings, files, selected_port, versions>>
clockVars == <<instant, utc>>
tecVars == <<port, port_ident, handles>>

-----------------------------------------------------------------------------
(* SpecSend: single calls of send_cmd on an open client, over the op-codes  *)
(* of the command table, with everything the transport can answer.          *)

SendPayloads == {<<0, 0, 0, 0>>, <<1, 0, 0, 0>>, <<0, 0, 200, 66>>}

AnswerModes == {"reply", "wrong_op", "echo", "bad_crc", "swapped_crc",
                "wrong_op_bad_crc", "bad_marker"}

\* Two frames written out byte by byte: the well-formed responses to
\* heartbeat (status BOARD_INIT) and to get-temperature (25.0).
LiteralFrames == {<<170, 127, 1, 0, 0, 0, 225, 105>>,
                  <<170, 128, 0, 0, 200, 65, 226, 130>>}

SendAnswers ==
    {WriteFails, ReadFails}
    \cup {Answer(mode, d) : mode \in AnswerModes, d \in SendPayloads}
    \cup {Answer("literal", f) : f \in LiteralFrames}

\* A call that has been chosen and not made yet.
Pending(call, args, s, o) ==
    [call |-> call, args |-> args, s |-> s, o |-> o,
     io |-> <<>>, ok |-> FALSE, val |-> <<>>, err |-> "pending"]

InitSend ==
    /\ state = "Library"
    /\ tec_status = 0
    /\ last_sample_time = 0
    /\ error_text = NoError
    /\ chart = ChartGroup_default
    /\ app_settings = Settings_default
    /\ files = NoFiles
    /\ selected_port = ""
    /\ versions = [firmware_version_major |-> 0, firmware_version_minor |-> 0,
                   hardware_version |-> 0]
    /\ instant = 0
    /\ utc = 0
    /\ port = 1
    /\ port_ident = "COM3"
    /\ handles = {1}
    /\ \E op_code \in ClientOps, data \in SendPayloads, e \in SendAnswers :
           hist = Pending("send_cmd", <<op_code, data>>,
                          <<e, Answer("reply", data)>>, <<>>)

SendCmd ==
    /\ hist.err = "pending"
    /\ \E r \in {send_cmd(Mach(hist.s, hist.o),
                         Request_new(hist.args[1], hist.args[2]))} :
           hist' = Hist("send_cmd", hist.args, hist.s, hist.o, r)
    /\ UNCHANGED <<driverVars, clockVars, tecVars>>

NextSend == SendCmd

SpecSend == InitSend /\ [][NextSend]_vars

-----------------------------------------------------------------------------
(* SpecCodec: Request::new and Request::as_bytes on every op-code, and      *)
(* Response::from_bytes on the bytes they give.                             *)

CodecPayloads == {<<0, 0, 0, 0>>, <<1, 0, 0, 0>>, <<0, 0, 200, 66>>,
                  <<1, 2, 3, 4>>, <<128, 0, 0, 1>>, <<255, 255, 255, 255>>}

InitCodec ==
    /\ state = "Library"
    /\ tec_status = 0
    /\ last_sample_time = 0
    /\ error_text = NoError
    /\ chart = ChartGroup_default
    /\ app_settings = Settings_default
    /\ files = NoFiles
    /\ selected_port = ""
    /\ versions = [firmware_version_major |-> 0, firmware_version_minor |-> 0,
                   hardware_version |-> 0]
    /\ instant = 0
    /\ utc = 0
    /\ port = 0
    /\ port_ident = ""
    /\ handles = {}
    /\ \E op_code \in Byte, data \in CodecPayloads :
           hist = Pending("codec", <<op_code, data>>, <<>>, <<>>)

\* Request::new(op_code, data).as_bytes(), then Response::from_bytes.
Codec ==
    /\ hist.call = "codec" /\ hist.err = "pending"
    /\ \E bytes \in {as_bytes(Request_new(hist.args[1], hist.args[2]))} :
           hist' = [hist EXCEPT !.err = "", !.ok = TRUE,
                                !.val = [bytes |-> bytes,
                                         decoded |-> Response_from_bytes(bytes)]]
    /\ UNCHANGED <<driverVars, clockVars, tecVars>>

NextCodec == Codec

SpecCodec == InitCodec /\ [][NextCodec]_vars

-----------------------------------------------------------------------------
(* SpecChart: the seven windows fed by ChartGroup::update, with the wall    *)
(* clock (chrono::Utc) that stamps the snapshots.  The wall clock is set    *)
(* by the system: it moves forward, and it can be set back.                 *)

\* Wall-clock readings, ms: 0 s, 100 s, 200 s, 300.001 s, 400 s (100 s and
\* 400 s are exactly 300 s apart, 0 s and 300.001 s just over 300 s).
ChartTimes == {0, 100000, 200000, 300001, 400000}

\* Snapshots the windows are fed with (values as monitor decodes them):
\* inside the initial ranges, and outside them.
ChartValues ==
    {[tec_temperature |-> 10 * Den, pcb_temperature |-> 25 * Den,
      humidity |-> 50 * Den, dew_point_temperature |-> 12 * Den,
      tec_voltage |-> 12 * Den, tec_current |-> 4 * Den, tec_power_level |-> 40],
     [tec_temperature |-> 25 * Den, pcb_temperature |-> 0 - 5 * Den,
      humidity |-> 60 * Den, dew_point_temperature |-> 26 * Den,
      tec_voltage |-> 0, tec_current |-> 10 * Den, tec_power_level |-> 100]}

MaxSamples == 4

InitChart ==
    /\ state = "Running"
    /\ tec_status = 0
    /\ last_sample_time = 0
    /\ error_text = NoError
    /\ chart = ChartGroup_default
    /\ app_settings = Settings_default
    /\ files = NoFiles
    /\ selected_port = ""
    /\ versions = [firmware_version_major |-> 0, firmware_version_minor |-> 0,
                   hardware_version |-> 0]
    /\ instant = 0
    /\ utc \in ChartTimes
    /\ port = 1
    /\ port_ident = "COM3"
    /\ handles = {1}
    /\ hist = NoHist

\* self.chart.update(data) with a snapshot stamped now; hist keeps the
\* windows as they were before and, in io, the snapshots in their order of
\* arrival.
ChartUpdate ==
    /\ Len(hist.io) < MaxSamples
    /\ \E v \in ChartValues :
       \E data \in {[timestamp |-> utc,
                     tec_temperature |-> v.tec_temperature,
                     pcb_temperature |-> v.pcb_temperature,
                     humidity |-> v.humidity,
                     dew_point_temperature |-> v.dew_point_temperature,
                     tec_voltage |-> v.tec_voltage,
                     tec_current |-> v.tec_current,
                     tec_power_level |-> v.tec_power_level]} :
           /\ chart' = ChartGroup_update(chart, data)
           /\ hist' = [NoHist EXCEPT !.call = "ChartGroup::update",
                                     !.args = <<data>>,
                                     !.io = Append(hist.io, data),
                                     !.val = chart]
    /\ UNCHANGED <<state, tecVars, tec_status, last_sample_time, error_text,
                   app_settings, files, selected_port, versions, clockVars>>

\* The wall clock reads something else: later, or earlier (set back).
ChartClock ==
    /\ \E t \in ChartTimes \ {utc} : utc' = t
    /\ hist' = [NoHist EXCEPT !.io = hist.io]
    /\ UNCHANGED <<driverVars, tecVars, instant>>

NextChart == ChartUpdate \/ ChartClock

SpecChart == InitChart /\ [][NextChart]_vars

-----------------------------------------------------------------------------
(* SpecCache: the appends of SpecChart with the windows drawn in between.   *)

MaxCached == 3

\* The view is drawn: every window's cache holds its picture.
ChartDraw ==
    /\ chart' = ChartGroup_view(chart)
    /\ hist' = [NoHist EXCEPT !.call = "ChartGroup::view", !.io = hist.io]
    /\ UNCHANGED <<state, tecVars, tec_status, last_sample_time, error_text,
                   app_settings, files, selected_port, versions, clockVars>>

NextCache ==
    \/ Len(hist.io) < MaxCached /\ ChartUpdate
    \/ ChartClock
    \/ ChartDraw

SpecCache == InitChart /\ [][NextCache]_vars

-----------------------------------------------------------------------------
(* SpecValues: the appends of SpecChart, and appends of a snapshot whose    *)
(* f32 readings are what the device sent when it sent the bytes of a NaN.   *)

MaxValues == 3

\* The four bytes of a quiet NaN, as the four f32 getters decode them; the
\* other three readings are as in ChartValues.
NaNValues ==
    {[tec_temperature |-> F32FromLeBytes(<<0, 0, 192, 127>>),
      pcb_temperature |-> F32FromLeBytes(<<0, 0, 192, 127>>),
      humidity |-> F32FromLeBytes(<<0, 0, 192, 127>>),
      dew_point_temperature |-> F32FromLeBytes(<<0, 0, 192, 127>>),
      tec_voltage |-> 12 * Den, tec_current |-> 4 * Den, tec_power_level |-> 40]}

\* self.chart.update(data) with such a snapshot.
ChartUpdateNaN ==
    /\ \E v \in NaNValues :
       \E data \in {[timestamp |-> utc,
                     tec_temperature |-> v.tec_temperature,
                     pcb_temperature |-> v.pcb_temperature,
                     humidity |-> v.humidity,
                     dew_point_temperature |-> v.dew_point_temperature,
                     tec_voltage |-> v.tec_voltage,
                     tec_current |-> v.tec_current,
                     tec_power_level |-> v.tec_power_level]} :
           /\ chart' = ChartGroup_update(chart, data)
           /\ hist' = [NoHist EXCEPT !.call = "ChartGroup::update",
                                     !.args = <<data>>,
                                     !.io = Append(hist.io, data),
                                     !.val = chart]
    /\ UNCHANGED <<state, tecVars, tec_status, last_sample_time, error_text,
                   app_settings, files, selected_port, versions, clockVars>>

NextValues ==
    \/ Len(hist.io) < MaxValues /\ ChartUpdate
    \/ Len(hist.io) < MaxValues /\ ChartUpdateNaN
    \/ ChartClock

SpecValues == InitChart /\ [][NextValues]_vars

-----------------------------------------------------------------------------
(* SpecHover: build_chart resolving the hovered sample, draw after draw,    *)
(* for a window of data_size samples in a viewport, with the cursor state   *)
(* (no position, or a position in pixels) of each draw.                     *)

MaxDataLen == 10
MaxDraws == 2

HoverCursors == {0 - 10, 0, 4, 5, 20, 45, 50, 70, 100, 120, 150}
HoverWidths == {0, 1, 50, 100}
HoverOrigins == {0, 20}

InitHover ==
    /\ state = "Running"
    /\ tec_status = 0
    /\ last_sample_time = 0
    /\ error_text = NoError
    /\ chart = ChartGroup_default
    /\ app_settings = Settings_default
    /\ files = NoFiles
    /\ selected_port = ""
    /\ versions = [firmware_version_major |-> 0, firmware_version_minor |-> 0,
                   hardware_version |-> 0]
    /\ instant = 0
    /\ utc = 0
    /\ port = 1
    /\ port_ident = "COM3"
    /\ handles = {1}
    /\ \E data_size \in 0 .. MaxDataLen, bounds_width \in HoverWidths,
          bounds_x \in HoverOrigins :
           hist = [NoHist EXCEPT !.call = "build_chart",
                                 !.args = <<data_size, bounds_width, bounds_x>>]

\* One draw: calc_hover_index(state.mouse_x_position, data_points.len(),
\* state.bounds.width, state.bounds.x); the log keeps the cursor and the
\* index of each draw.
Hover ==
    /\ hist.call = "build_chart"
    /\ Len(hist.io) < MaxDraws
    /\ \E x_pos_option \in {<<>>} \cup {<<x>> : x \in HoverCursors} :
           hist' = [hist EXCEPT !.io = Append(@,
                       [ev |-> "calc_hover_index",
                        x_pos_option |-> x_pos_option,
                        hover_index |-> calc_hover_index(x_pos_option,
                                            hist.args[1], hist.args[2],
                                            hist.args[3])])]
    /\ UNCHANGED <<driverVars, clockVars, tecVars>>

NextHover == Hover

SpecHover == InitHover /\ [][NextHover]_vars

-----------------------------------------------------------------------------
(* SpecSettings: the settings and their directory.  load_settings makes    *)
(* the AppSettings of a process (or of a test block) from the directory;   *)
(* the setters and write_to_disk act on it; the wall clock names the       *)
(* backups.                                                                 *)

\* The texts of the unit tests, as JSON values.
DEFAULT_SETTING_PRETTY ==
    [json |-> TRUE, version |-> JInt(1),
     data |-> JObject(
         [last_port_ident |-> JNull,
          open_port_on_startup |-> JBool(FALSE),
          tec_inputs |-> JObject([p_coef |-> JFloat(100 * Den),
                                  i_coef |-> JFloat(1 * Den),
                                  d_coef |-> JFloat(1 * Den),
                                  set_point |-> JFloat(2 * Den),
                                  max_power |-> JInt(100)]),
          enable_on_startup |-> JBool(FALSE)])]

INVALID_SETTING_PRETTY ==
    [json |-> TRUE, version |-> JInt(1), data |-> JStr("invalid")]

OUTDATED_SETTING_PRETTY == [DEFAULT_SETTING_PRETTY EXCEPT !.version = JInt(0)]

\* More files a directory can hold: a version below 0, a version that is
\* a string, version 1 with a max_power that is no u8, version 1 with
\* whole numbers for the f32 fields and a port.
NegativeVersion == [DEFAULT_SETTING_PRETTY EXCEPT !.version = JInt(0 - 1)]
TextVersion == [DEFAULT_SETTING_PRETTY EXCEPT !.version = JStr("1")]
PowerOutOfRange ==
    [DEFAULT_SETTING_PRETTY EXCEPT !.data.v.tec_inputs.v.max_power = JInt(300)]
HandWritten ==
    [DEFAULT_SETTING_PRETTY EXCEPT !.data.v.tec_inputs.v.p_coef = JInt(50),
                                   !.data.v.last_port_ident = JStr("COM4")]

SettingsContents ==
    {DEFAULT_SETTING_PRETTY, INVALID_SETTING_PRETTY, OUTDATED_SETTING_PRETTY,
     NegativeVersion, TextVersion, PowerOutOfRange, HandWritten, NotJson}

InitialDirs ==
    {NoFiles, SETTINGS_TEMP_FILE :> DEFAULT_SETTING_PRETTY}
    \cup {SETTINGS_FILE :> c : c \in SettingsContents}

\* Wall-clock readings, ms: two in the same second and one in the next.
SettingsTimes == {0, 400, 1000}

\* The setters called, by field, and the values they are called with.
SetterFields == {"enable_on_startup", "max_power", "p_coef", "last_port_ident"}

SetterValues(field) ==
    CASE field = "enable_on_startup" -> {TRUE, FALSE}
      [] field = "max_power" -> {80}
      [] field = "p_coef" -> {1001}
      [] field = "last_port_ident" -> {"COM3"}

InitSettings ==
    /\ state = "NoSettings"
    /\ tec_status = 0
    /\ last_sample_time = 0
    /\ error_text = NoError
    /\ chart = ChartGroup_default
    /\ app_settings = Settings_default
    /\ files \in InitialDirs
    /\ selected_port = ""
    /\ versions = [firmware_version_major |-> 0, firmware_version_minor |-> 0,
                   hardware_version |-> 0]
    /\ instant = 0
    /\ utc \in SettingsTimes
    /\ port = 0
    /\ port_ident = ""
    /\ handles = {}
    /\ hist = NoHist

\* AppSettings::load_settings(path); hist keeps the directory as it was.
Load ==
    /\ \E r \in {load_settings(files, utc)} :
           /\ app_settings' = r.settings
           /\ files' = r.files
    /\ state' = "Loaded"
    /\ hist' = [NoHist EXCEPT !.call = "load_settings", !.args = <<files>>]
    /\ UNCHANGED <<tecVars, tec_status, last_sample_time, error_text, chart,
                   selected_port, versions, clockVars>>

\* A setter: set_value!(self, value, settings.field); hist keeps the
\* settings as they were.
Set ==
    /\ state = "Loaded"
    /\ \E field \in SetterFields, outcome \in WriteOutcomes :
       \E value \in SetterValues(field) :
       \E r \in {set_value(app_settings, files, field, value, outcome)} :
           /\ app_settings' = r.settings
           /\ files' = r.files
           /\ hist' = [NoHist EXCEPT !.call = "set_value",
                                     !.args = <<field, value>>,
                                     !.o = <<outcome>>,
                                     !.ok = r.ok,
                                     !.val = app_settings]
    /\ UNCHANGED <<state, tecVars, tec_status, last_sample_time, error_text,
                   chart, selected_port, versions, clockVars>>

\* settings.write_to_disk(), as the unit tests call it.
WriteToDisk ==
    /\ state = "Loaded"
    /\ \E outcome \in WriteOutcomes :
       \E r \in {write_to_disk(app_settings, files, outcome)} :
           /\ files' = r.files
           /\ hist' = [NoHist EXCEPT !.call = "write_to_disk",
                                     !.args = <<files>>,
                                     !.o = <<outcome>>,
                                     !.ok = r.ok]
    /\ UNCHANGED <<state, app_settings, tecVars, tec_status, last_sample_time,
                   error_text, chart, selected_port, versions, clockVars>>

\* The wall clock reads something else.
SettingsClock ==
    /\ \E t \in SettingsTimes \ {utc} : utc' = t
    /\ UNCHANGED <<driverVars, tecVars, instant, hist>>

NextSettings == Load \/ Set \/ WriteToDisk \/ SettingsClock

SpecSettings == InitSettings /\ [][NextSettings]_vars

-----------------------------------------------------------------------------
(* Scripts: what the environment answers during one handler.                *)

\* Every exchange answered well, with the payloads ds in this order.
Replies(ds) == [i \in 1 .. Len(ds) |-> Answer("reply", ds[i])]

\* The ways one exchange goes wrong.
Faults == {WriteFails, ReadFails,
           Answer("wrong_op", <<0, 0, 0, 0>>), Answer("bad_crc", <<0, 0, 0, 0>>)}

\* All answered well, or exactly the k-th exchange going wrong (exchanges
\* after a failed one are answered well, should the client go on).
ScriptsWith(ds, faults) ==
    {Replies(ds)}
    \cup {[Replies(ds) EXCEPT ![k] = f] : k \in 1 .. Len(ds), f \in faults}

ScriptsOver(ds) == ScriptsWith(ds, Faults)

\* Status words a heartbeat can carry: nothing set; BOARD_INIT;
\* BOARD_INIT, POWER_OK and LOW_POWER_MODE_ACTIVE; POWER_OK with bits 18
\* and 31 set and BOARD_INIT missing; BOARD_INIT and POWER_OK; bit 18
\* alone; all 32 bits.
StatusPayloads ==
    {<<0, 0, 0, 0>>, <<1, 0, 0, 0>>, <<3, 0, 1, 0>>, <<2, 0, 4, 128>>,
     <<3, 0, 0, 0>>, <<0, 0, 4, 0>>, <<255, 255, 255, 255>>}

\* Seven payloads for the seven reads of monitor, in its order: mid-range
\* values (10.0, 25.0, 50.0, 12.0 as f32; 253 and 21 counts; 40 %), and
\* values outside the initial ranges (25.0, -5.0, 60.0, 26.25; 0; 47; 100).
MonitorPayloads ==
    {<<<<0, 0, 32, 65>>, <<0, 0, 200, 65>>, <<0, 0, 72, 66>>, <<0, 0, 64, 65>>,
       <<253, 0, 0, 0>>, <<21, 0, 0, 0>>, <<40, 0, 0, 0>>>>,
     <<<<0, 0, 200, 65>>, <<0, 0, 160, 192>>, <<0, 0, 112, 66>>, <<0, 0, 210, 65>>,
       <<0, 0, 0, 0>>, <<47, 0, 0, 0>>, <<100, 0, 0, 0>>>>}

OpenOutcomes == {"ok", "open_fails", "configure_fails"}

Ports == {"COM3", "COM4"}

\* Arguments of enable: the defaults of the settings, and other values.
EnableArgs ==
    {[p |-> 100 * Den, i |-> 1 * Den, d |-> 1 * Den, power_level |-> 100, setpoint |-> 2 * Den],
     [p |-> 50 * Den, i |-> Den \div 2, d |-> 0, power_level |-> 0, setpoint |-> 0 - 5 * Den],
     [p |-> 0 - 1 * Den, i |-> 25 * Den, d |-> 2 * Den, power_level |-> 255, setpoint |-> 10 * Den]}

-----------------------------------------------------------------------------
(* SpecTec: the client library driven through its public operations, one    *)
(* client at a time.  A call is made when the result of the one before has  *)
(* been taken (Forget).                                                     *)

Idle == hist.call = ""

InitTec ==
    /\ state = "Library"
    /\ tec_status = 0
    /\ last_sample_time = 0
    /\ error_text = NoError
    /\ chart = ChartGroup_default
    /\ app_settings = Settings_default
    /\ files = NoFiles
    /\ selected_port = ""
    /\ versions = [firmware_version_major |-> 0, firmware_version_minor |-> 0,
                   hardware_version |-> 0]
    /\ instant = 0
    /\ utc = 0
    /\ port = 0
    /\ port_ident = ""
    /\ handles = {}
    /\ hist = NoHist

\* The client's fields after a call.
TecAfter(r) ==
    /\ port' = r.m.port
    /\ port_ident' = r.m.port_ident
    /\ handles' = r.m.handles

TecNew ==
    /\ Idle /\ port = 0
    /\ \E path \in Ports, o \in OpenOutcomes, st \in StatusPayloads :
       \E s \in ScriptsOver(<<st, <<0, 0, 0, 0>>>>) :
       \E r \in {Tec_new(Mach(s, <<o>>), path)} :
           /\ hist' = Hist("Tec::new", <<path>>, s, <<o>>, r)
           /\ TecAfter(r)
    /\ UNCHANGED <<driverVars, clockVars>>

TecDrop ==
    /\ Idle /\ port # 0
    /\ LET m == DropTec(Mach(<<>>, <<>>))
       IN  /\ hist' = Hist("drop", <<>>, <<>>, <<>>, Ok(<<>>, m))
           /\ TecAfter([m |-> m])
    /\ UNCHANGED <<driverVars, clockVars>>

TecHeartBeat ==
    /\ Idle /\ port # 0
    /\ \E s \in {<<Answer("reply", st)>> : st \in StatusPayloads}
               \cup {<<f>> : f \in Faults} :
       \E r \in {heart_beat(Mach(s, <<>>))} :
           /\ hist' = Hist("heart_beat", <<>>, s, <<>>, r)
           /\ TecAfter(r)
    /\ UNCHANGED <<driverVars, clockVars>>

TecMonitor ==
    /\ Idle /\ port # 0
    /\ \E ds \in MonitorPayloads : \E s \in ScriptsOver(ds) :
       \E r \in {monitor(Mach(s, <<>>))} :
           /\ hist' = Hist("monitor", <<>>, s, <<>>, r)
           /\ TecAfter(r)
    /\ UNCHANGED <<driverVars, clockVars>>

TecEnable ==
    /\ Idle /\ port # 0
    /\ \E a \in EnableArgs :
       \E s \in ScriptsOver([k \in 1 .. 6 |-> <<0, 0, 0, 0>>]) :
       \E r \in {enable(Mach(s, <<>>), a.p, a.i, a.d, a.power_level, a.setpoint)} :
           /\ hist' = Hist("enable", a, s, <<>>, r)
           /\ TecAfter(r)
    /\ UNCHANGED <<driverVars, clockVars>>

TecDisable ==
    /\ Idle /\ port # 0
    /\ \E s \in ScriptsOver(<<<<0, 0, 0, 0>>>>) :
       \E r \in {disable(Mach(s, <<>>))} :
           /\ hist' = Hist("disable", <<>>, s, <<>>, r)
           /\ TecAfter(r)
    /\ UNCHANGED <<driverVars, clockVars>>

\* disable called twice in succession, whatever the first call returned;
\* the log holds the I/O of both calls, the result is that of the second.
TecDisableTwice ==
    /\ Idle /\ port # 0
    /\ \E ds \in {<<<<0, 0, 0, 0>>, <<0, 0, 0, 0>>>>, <<<<1, 0, 0, 0>>, <<0, 0, 0, 0>>>>} :
       \E s \in ScriptsOver(ds) :
       \E r1 \in {disable(Mach(s, <<>>))} :
       \E r2 \in {disable(r1.m)} :
           /\ hist' = Hist("disable; disable", <<>>, s, <<>>, r2)
           /\ TecAfter(r2)
    /\ UNCHANGED <<driverVars, clockVars>>

TecReset ==
    /\ Idle /\ port # 0
    /\ \E s \in ScriptsOver(<<<<0, 0, 0, 0>>>>) :
       \E r \in {reset(Mach(s, <<>>))} :
           /\ hist' = Hist("reset", <<>>, s, <<>>, r)
           /\ TecAfter(r)
    /\ UNCHANGED <<driverVars, clockVars>>

TecResetConnection ==
    /\ Idle /\ port # 0
    /\ \E o \in OpenOutcomes :
       \E r \in {reset_connection(Mach(<<>>, <<o>>))} :
           /\ hist' = Hist("reset_connection", <<>>, <<>>, <<o>>, r)
           /\ TecAfter(r)
    /\ UNCHANGED <<driverVars, clockVars>>

\* The typed getters by name.
Getters ==
    {"tec_temperature", "humidity", "dew_point_temperature", "setpoint_offset",
     "p_coefficient", "i_coefficient", "d_coefficient", "tec_power_level",
     "hw_version", "fw_version", "board_temperature", "tec_voltage",
     "tec_current"}

Getter(name, m) ==
    CASE name = "tec_temperature" -> tec_temperature(m)
      [] name = "humidity" -> humidity(m)
      [] name = "dew_point_temperature" -> dew_point_temperature(m)
      [] name = "setpoint_offset" -> setpoint_offset(m)
      [] name = "p_coefficient" -> p_coefficient(m)
      [] name = "i_coefficient" -> i_coefficient(m)
      [] name = "d_coefficient" -> d_coefficient(m)
      [] name = "tec_power_level" -> tec_power_level(m)
      [] name = "hw_version" -> hw_version(m)
      [] name = "fw_version" -> fw_version(m)
      [] name = "board_temperature" -> board_temperature(m)
      [] name = "tec_voltage" -> tec_voltage(m)
      [] name = "tec_current" -> tec_current(m)

\* Payloads a getter is answered with: 10.0 and -5.0 where it decodes an
\* f32, the counts 253 and 21 where it decodes an integer.
GetterPayloads(name) ==
    IF name \in {"tec_temperature", "humidity", "dew_point_temperature",
                 "p_coefficient", "i_coefficient", "d_coefficient",
                 "board_temperature"}
    THEN {<<0, 0, 32, 65>>, <<0, 0, 160, 192>>}
    ELSE {<<253, 0, 0, 0>>, <<21, 0, 0, 0>>}

\* One call of a typed getter.
TecGet ==
    /\ Idle /\ port # 0
    /\ \E name \in Getters :
       \E s \in {<<Answer("reply", d)>> : d \in GetterPayloads(name)}
                  \cup {<<f>> : f \in Faults} :
       \E r \in {Getter(name, Mach(s, <<>>))} :
           /\ hist' = Hist(name, <<>>, s, <<>>, r)
           /\ TecAfter(r)
    /\ UNCHANGED <<driverVars, clockVars>>

\* The caller has taken the result of the last call.
Forget ==
    /\ ~Idle
    /\ hist' = NoHist
    /\ UNCHANGED <<driverVars, clockVars, tecVars>>

\* Time passes between calls.
MaxUtc == 2
TecClock ==
    /\ Idle /\ utc < MaxUtc
    /\ utc' = utc + 1
    /\ instant' = instant + 1
    /\ UNCHANGED <<driverVars, tecVars, hist>>

NextTec ==
    \/ TecNew \/ TecDrop \/ TecHeartBeat \/ TecMonitor \/ TecEnable
    \/ TecDisable \/ TecDisableTwice \/ TecReset \/ TecResetConnection
    \/ TecGet \/ Forget \/ TecClock

SpecTec == InitTec /\ [][NextTec]_vars

-----------------------------------------------------------------------------
(* Spec: the application.  CryoCoolerController::new, then the messages the *)
(* window delivers, one handler at a time, and the clocks moving between    *)
(* handlers.                                                                *)

\* What the settings file yields at start-up: nothing saved; a saved port
\* opened on start-up; a saved port, the TEC enabled when it is opened.
InitialSettings ==
    {Settings_default,
     [Settings_default EXCEPT !.last_port_ident = "COM3",
                              !.open_port_on_startup = TRUE],
     [Settings_default EXCEPT !.last_port_ident = "COM4",
                              !.enable_on_startup = TRUE,
                              !.max_power = 80]}

\* The directory main() loaded the settings from: no file yet when they
\* are the defaults, else the file a setter wrote.
SettingsDir(settings) ==
    IF settings = Settings_default
    THEN NoFiles
    ELSE SETTINGS_FILE :> PersistentDataV1_serialize(settings)

\* What the file system does when the application saves its settings.
DriverWriteOutcomes == {"ok"}

\* The faults and status words the application is run against.
DriverFaults == {ReadFails, Answer("bad_crc", <<0, 0, 0, 0>>)}
DriverStatuses == {<<3, 0, 0, 0>>, <<2, 0, 1, 0>>}

FwPayload == <<1, 2, 0, 0>>
HwPayload == <<3, 0, 0, 0>>

\* The payloads RunningState::new asks for, in its order: heartbeat,
\* reset-board when the status calls for it, firmware version, hardware
\* version, heartbeat, and the six writes of enable when enabled on start-up.
OpenPayloads(st1, st2, settings) ==
    (IF contains(Low18(st1), BOARD_INIT) THEN <<st1>> ELSE <<st1, <<0, 0, 0, 0>>>>)
    \o <<FwPayload, HwPayload, st2>>
    \o (IF settings.enable_on_startup
        THEN [k \in 1 .. 6 |-> <<0, 0, 0, 0>>] ELSE <<>>)

\* Exchange script and open script for one RunningState::new.
OpenInputs(settings) ==
    {[s |-> <<>>, o |-> <<oc>>] : oc \in OpenOutcomes \ {"ok"}}
    \cup {[s |-> sc, o |-> <<"ok">>] :
            sc \in UNION {ScriptsWith(OpenPayloads(st1, st2, settings), DriverFaults) :
                            st1 \in DriverStatuses, st2 \in DriverStatuses}}

\* Exchange script and open script for one poll round: heartbeat and the
\* seven reads; the port is reopened only after a failed heartbeat.
TickInputs ==
    UNION {{[s |-> sc, o |-> <<>>] :
               sc \in {x \in ScriptsWith(<<st>> \o ds, DriverFaults) : x[1].mode = "reply" /\ x[1].r}}
           \cup {[s |-> sc, o |-> <<oc>>] :
               sc \in {x \in ScriptsWith(<<st>> \o ds, DriverFaults) : ~(x[1].mode = "reply" /\ x[1].r)},
               oc \in OpenOutcomes} :
           st \in DriverStatuses, ds \in MonitorPayloads}

AvailablePorts == {<<>>, <<"COM3">>, <<"COM3", "COM4">>}

\* Vec::pop as an Option ("" is None).
Pop(ports) == IF ports = <<>> THEN "" ELSE ports[Len(ports)]

Init ==
    /\ state = "Start"
    /\ tec_status = 0
    /\ last_sample_time = 0
    /\ error_text = NoError
    /\ chart = ChartGroup_default
    /\ app_settings \in InitialSettings
    /\ files = SettingsDir(app_settings)
    /\ selected_port = ""
    /\ versions = [firmware_version_major |-> 0, firmware_version_minor |-> 0,
                   hardware_version |-> 0]
    /\ instant = 0
    /\ utc = 0
    /\ port = 0
    /\ port_ident = ""
    /\ handles = {}
    /\ hist = NoHist

\* The RunningState as a record, and back into the variables.
RS == [last_sample_time |-> last_sample_time, tec_status |-> tec_status,
       chart |-> chart, error_text |-> error_text]

RunningAfter(x) ==
    /\ last_sample_time' = x.rs.last_sample_time
    /\ tec_status' = x.rs.tec_status
    /\ chart' = x.rs.chart
    /\ error_text' = x.rs.error_text
    /\ TecAfter(x)

\* State::Running(running_state) / home.error_text = Some(..)
Opened(r, path) ==
    /\ TecAfter(r)
    /\ IF r.ok
       THEN /\ state' = "Running"
            /\ last_sample_time' = r.val.last_sample_time
            /\ tec_status' = r.val.tec_status
            /\ versions' = r.val.versions
            /\ chart' = r.val.chart
            /\ error_text' = r.val.error_text
       ELSE /\ state' = "Home"
            /\ error_text' = Some("Error connecting to Port", r.err)
            /\ UNCHANGED <<last_sample_time, tec_status, versions, chart>>

\* CryoCoolerController::new
AppNew ==
    /\ state = "Start" /\ Idle
    /\ IF app_settings.last_port_ident # "" /\ app_settings.open_port_on_startup
       THEN \E x \in OpenInputs(app_settings) :
            \E r \in {RunningState_new(Mach(x.s, x.o), app_settings.last_port_ident,
                                       app_settings)} :
                /\ hist' = Hist("new", <<app_settings.last_port_ident>>, x.s, x.o, r)
                /\ Opened(r, app_settings.last_port_ident)
                /\ selected_port' = IF r.ok THEN "" ELSE app_settings.last_port_ident
       ELSE \E ports \in AvailablePorts :
                /\ state' = "Home"
                /\ selected_port' = IF app_settings.last_port_ident # ""
                                    THEN app_settings.last_port_ident
                                    ELSE Pop(ports)
                /\ hist' = Hist("new", <<>>, <<>>, <<>>, Ok(<<>>, Mach(<<>>, <<>>)))
                /\ UNCHANGED <<tecVars, last_sample_time, tec_status, versions,
                               chart, error_text>>
    /\ UNCHANGED <<app_settings, files, clockVars>>

\* HomeState::update, Message::PortSelected
PortSelected ==
    /\ state = "Home" /\ Idle
    /\ \E p \in Ports : selected_port' = p
    /\ UNCHANGED <<state, tecVars, tec_status, last_sample_time, error_text, chart,
                   app_settings, files, versions, clockVars, hist>>

\* CryoCoolerController::update, Message::Open
Open ==
    /\ state = "Home" /\ Idle /\ selected_port # ""
    /\ \E outcome \in DriverWriteOutcomes :
       \E saved \in {set_value(app_settings, files, "last_port_ident",
                               selected_port, outcome)} :
       \E x \in OpenInputs(app_settings) :
       \E r \in {RunningState_new(Mach(x.s, x.o), selected_port, saved.settings)} :
           /\ app_settings' = saved.settings
           /\ files' = saved.files
           /\ hist' = Hist("Open", <<selected_port>>, x.s, x.o, r)
           /\ Opened(r, selected_port)
    /\ UNCHANGED <<selected_port, clockVars>>

\* RunningState::update, Message::Tick
Tick ==
    /\ state = "Running" /\ Idle
    /\ \E x \in IF should_update(Mach(<<>>, <<>>), RS)
                THEN TickInputs ELSE {[s |-> <<>>, o |-> <<>>]} :
       \E y \in {update_Tick(Mach(x.s, x.o), RS)} :
           /\ hist' = Hist("Tick", <<>>, x.s, x.o, Ok(<<>>, y.m))
           /\ RunningAfter(y)
    /\ UNCHANGED <<state, app_settings, files, selected_port, versions, clockVars>>

\* RunningState::update, Message::Enable
Enable ==
    /\ state = "Running" /\ Idle
    /\ \E s \in ScriptsWith([k \in 1 .. 6 |-> <<0, 0, 0, 0>>], DriverFaults) :
       \E y \in {update_Enable(Mach(s, <<>>), RS, app_settings)} :
           /\ hist' = Hist("Enable", <<>>, s, <<>>, Ok(<<>>, y.m))
           /\ RunningAfter(y)
    /\ UNCHANGED <<state, app_settings, files, selected_port, versions, clockVars>>

\* RunningState::update, Message::Disable
Disable ==
    /\ state = "Running" /\ Idle
    /\ \E s \in ScriptsWith(<<<<0, 0, 0, 0>>>>, DriverFaults) :
       \E y \in {update_Disable(Mach(s, <<>>), RS)} :
           /\ hist' = Hist("Disable", <<>>, s, <<>>, Ok(<<>>, y.m))
           /\ RunningAfter(y)
    /\ UNCHANGED <<state, app_settings, files, selected_port, versions, clockVars>>

\* HomeState::update and RunningState::update, Message::CloseModal
CloseModal ==
    /\ state \in {"Home", "Running"} /\ Idle
    /\ error_text.some
    /\ error_text' = update_CloseModal(Mach(<<>>, <<>>), RS).rs.error_text
    /\ UNCHANGED <<state, tecVars, tec_status, last_sample_time, chart,
                   app_settings, files, selected_port, versions, clockVars, hist>>

\* Time passes between two handlers, on both clocks.
StepsMs == {500, 501}
MaxInstant == 1002
Advance ==
    /\ state = "Running" /\ Idle
    /\ \E d \in StepsMs :
          /\ instant + d <= MaxInstant
          /\ instant' = instant + d
          /\ utc' = utc + d
    /\ UNCHANGED <<driverVars, tecVars, hist>>

Next ==
    \/ AppNew \/ PortSelected \/ Open \/ Tick \/ Enable \/ Disable
    \/ CloseModal \/ Advance \/ Forget

Spec == Init /\ [][Next]_vars

-----------------------------------------------------------------------------
(* SpecMessages: the application started without a settings file, with the  *)
(* settings messages of the running view beside the other handlers, and a   *)
(* settings directory that can refuse a write.                              *)

\* What the file system does when a settings message saves the settings.
MessageWriteOutcomes == {"ok", "open_fails"}

\* The power limits the user enters (the NumberInput keeps them within
\* 0 .. 100).
PowerInputs == {80, 100}

InitMessages == Init /\ app_settings = Settings_default

\* RunningState::update, Message::UpdateMaxPower
UpdateMaxPower ==
    /\ state = "Running" /\ Idle
    /\ \E input \in PowerInputs, outcome \in MessageWriteOutcomes :
       \E y \in {update_Setting(Mach(<<>>, <<>>), RS, app_settings, files,
                                "max_power", input, outcome)} :
           /\ hist' = Hist("UpdateMaxPower", <<input>>, <<>>, <<outcome>>,
                           Ok(<<>>, y.m))
           /\ app_settings' = y.settings
           /\ files' = y.files
           /\ RunningAfter(y)
    /\ UNCHANGED <<state, selected_port, versions, clockVars>>

NextMessages == Next \/ UpdateMaxPower

SpecMessages == InitMessages /\ [][NextMessages]_vars

-----------------------------------------------------------------------------
(* Properties of send_cmd (checked under SpecSend).                         *)

\* The send_cmd call of hist has returned.
SendDone == hist.call = "send_cmd" /\ hist.err # "pending"

\* What the script's first entry lets the transport do.
SentOk == hist.s[1].w
ReadOk == hist.s[1].w /\ hist.s[1].r

\* The 8 bytes that arrived (the call read them: ReadOk).
Arrived == hist.io[2].buf

ExpectedOp == (hist.args[1] + 127) % 256

ChecksumMatches(buf) ==
    buf[7] + 256 * buf[8] = CRC_16_XMODEM(SubSeq(buf, 1, 6))

CountEv(io, ev) == Cardinality({i \in 1 .. Len(io) : io[i].ev = ev})

\* C1: whenever 8 bytes arrive whose op-code byte is not request op-code
\* + 127, send_cmd fails with the op-code error, whether the checksum of
\* the bytes is valid or not.
C1_OpCodeBeforeChecksum ==
    (SendDone /\ ReadOk /\ Arrived[2] # ExpectedOp)
        => (~hist.ok /\ hist.err = ERR_OP_CODE)

\* C1 witness: a response with a wrong op-code and a wrong checksum was
\* rejected for its op-code.
C1_Witness ==
    /\ SendDone /\ ReadOk
    /\ Arrived[2] # ExpectedOp
    /\ ~ChecksumMatches(Arrived)
    /\ hist.err = ERR_OP_CODE

\* C2: send_cmd returns Ok exactly when the write and the read succeeded,
\* byte 1 is request op-code + 127 and bytes 6..7 (little-endian) are the
\* CRC of bytes 0..5; Ok carries the decoded bytes; a right op-code with a
\* wrong checksum gives the checksum error and no payload.  The frame
\* written out byte by byte for the heartbeat is accepted.
C2_OkIffValid ==
    SendDone =>
        /\ hist.ok <=> (ReadOk /\ Arrived[2] = ExpectedOp /\ ChecksumMatches(Arrived))
        /\ hist.ok => /\ hist.val.op_code = Arrived[2]
                      /\ hist.val.data = SubSeq(Arrived, 3, 6)
        /\ (ReadOk /\ Arrived[2] = ExpectedOp /\ ~ChecksumMatches(Arrived))
               => (~hist.ok /\ hist.err = ERR_CRC /\ hist.val = <<>>)
        /\ (ReadOk /\ hist.args[1] = HEART_BEAT
                   /\ Arrived = <<170, 127, 1, 0, 0, 0, 225, 105>>)
               => (hist.ok /\ hist.val.data = <<1, 0, 0, 0>>)

\* C2 witness: a response with the right op-code and a wrong checksum was
\* rejected with the checksum error.
C2_Witness ==
    /\ SendDone /\ ReadOk
    /\ Arrived[2] = ExpectedOp
    /\ ~ChecksumMatches(Arrived)
    /\ ~hist.ok /\ hist.err = ERR_CRC

\* C3: one call of send_cmd writes one 8-byte frame (the encoded request)
\* and makes at most one read; no read after a failed write; a failing call
\* takes nothing more from the transport than its one exchange.
C3_NoRetry ==
    SendDone =>
        /\ CountEv(hist.io, "write") = 1
        /\ CountEv(hist.io, "read") <= 1
        /\ hist.io[1].ev = "write"
        /\ Len(hist.io[1].bytes) = 8
        /\ hist.io[1].bytes[2] = hist.args[1]
        /\ ~SentOk => Len(hist.io) = 1
        /\ ~hist.ok => Len(hist.io) <= 2

\* C3 witness: a call whose read failed returned after one write and one
\* read.
C3_Witness ==
    /\ SendDone /\ SentOk /\ ~ReadOk
    /\ ~hist.ok /\ hist.err = ERR_READ
    /\ Len(hist.io) = 2

-----------------------------------------------------------------------------
(* Properties of the client's operations (checked under SpecTec).  They     *)
(* relate the script the environment answered with (hist.s, hist.o) to the  *)
(* frames the call wrote (hist.io) and to what it returned.                 *)

\* The frames written during the call, their op-codes and their payloads.
Writes(io) == SelectSeq(io, LAMBDA e : e.ev = "write")
SentOps(io) == [i \in 1 .. Len(Writes(io)) |-> Writes(io)[i].bytes[2]]
SentData(io) == [i \in 1 .. Len(Writes(io)) |-> SubSeq(Writes(io)[i].bytes, 3, 6)]

\* A script entry that lets the exchange succeed, and the error of one
\* that does not.
Good(e) == e.w /\ e.r /\ e.mode = "reply"
FaultErr(e) ==
    IF ~e.w THEN ERR_WRITE
    ELSE IF ~e.r THEN ERR_READ
    ELSE IF e.mode = "wrong_op" THEN ERR_OP_CODE
    ELSE ERR_CRC

\* The first of the entries 1..n that fails (0: none does).
FirstBad(s, n) ==
    IF \A k \in 1 .. n : Good(s[k]) THEN 0
    ELSE CHOOSE k \in 1 .. n : ~Good(s[k]) /\ \A j \in 1 .. k - 1 : Good(s[j])

IsPrefix(a, b) == Len(a) <= Len(b) /\ \A i \in 1 .. Len(a) : a[i] = b[i]

\* C4: Tec::new writes nothing when the port cannot be opened or
\* configured; otherwise its first I/O after open and reconfigure is the
\* heartbeat frame (op-code 0, payload 0), and it writes the reset-board
\* frame (op-code 30) exactly when the heartbeat succeeded with a status
\* lacking BOARD_INIT, and no other frame.  It returns Ok exactly when every
\* step succeeded; otherwise it returns the error of the failing step and
\* there is no client: the port is closed again.
C4_OpenHandshake ==
    hist.call = "Tec::new" =>
        LET ops == SentOps(hist.io)
            hb == hist.s[1]
            rst == hist.s[2]
            lacks == ~contains(Low18(hb.data), BOARD_INIT)
        IN  /\ hist.o[1] # "ok" =>
                  /\ Len(ops) = 0 /\ ~hist.ok
                  /\ hist.err = IF hist.o[1] = "open_fails"
                                THEN ERR_OPEN ELSE ERR_CONFIGURE
            /\ hist.o[1] = "ok" =>
                  /\ hist.io[1].ev = "open" /\ hist.io[1].path = hist.args[1]
                  /\ hist.io[2].ev = "reconfigure"
                  /\ hist.io[3].ev = "write"
                  /\ IsPrefix(ops, <<0, 30>>) /\ Len(ops) >= 1
                  /\ Len(ops) = 2 <=> (Good(hb) /\ lacks)
                  /\ \A i \in 1 .. Len(ops) : SentData(hist.io)[i] = <<0, 0, 0, 0>>
                  /\ hist.ok <=> (Good(hb) /\ (lacks => Good(rst)))
                  /\ ~Good(hb) => hist.err = FaultErr(hb)
                  /\ (Good(hb) /\ lacks /\ ~Good(rst)) => hist.err = FaultErr(rst)
            /\ hist.ok => (port # 0 /\ handles = {port} /\ port_ident = hist.args[1])
            /\ ~hist.ok => (port = 0 /\ handles = {})

\* C4 witness: an open that found the board not initialised, reset it and
\* returned the client.
C4_Witness ==
    /\ hist.call = "Tec::new" /\ hist.ok
    /\ ~contains(Low18(hist.s[1].data), BOARD_INIT)
    /\ Len(Writes(hist.io)) = 2
    /\ Writes(hist.io)[2].bytes[2] = 30
    /\ port # 0

\* C6: the frames enable writes are a prefix of: 0x1D with payload
\* [power_level,0,0,0], 0x14 with the setpoint, 0x15, 0x16, 0x17 with P, I, D
\* (as little-endian f32), 0x18 with payload [0,0,0,0]; enable writes
\* nothing else, returns Ok only after all six, and writes the 0x18 frame
\* only when the five exchanges before it succeeded.
C6_EnableOrder ==
    hist.call = "enable" =>
        LET ops == SentOps(hist.io)
            data == SentData(hist.io)
            a == hist.args
            want == <<<<a.power_level, 0, 0, 0>>, F32ToLeBytes(a.setpoint),
                      F32ToLeBytes(a.p), F32ToLeBytes(a.i), F32ToLeBytes(a.d),
                      <<0, 0, 0, 0>>>>
        IN  /\ IsPrefix(ops, <<29, 20, 21, 22, 23, 24>>)
            /\ IsPrefix(data, want)
            /\ \A i \in 1 .. Len(hist.io) : hist.io[i].ev \in {"write", "read"}
            /\ hist.ok => Len(ops) = 6
            /\ (\A k \in 1 .. 6 : Good(hist.s[k])) => hist.ok
            /\ Len(ops) = 6 => \A k \in 1 .. 5 : Good(hist.s[k])

\* C6 witness: an enable that wrote its six frames, with the default
\* arguments (100.0, 1.0, 1.0, 100 %, 2.0) in their encodings.
C6_Witness ==
    /\ hist.call = "enable" /\ hist.ok
    /\ SentOps(hist.io) = <<29, 20, 21, 22, 23, 24>>
    /\ SentData(hist.io) = <<<<100, 0, 0, 0>>, <<0, 0, 0, 64>>, <<0, 0, 200, 66>>,
                             <<0, 0, 128, 63>>, <<0, 0, 128, 63>>, <<0, 0, 0, 0>>>>

\* C7: when the k-th exchange of enable is the first to fail, enable
\* returns the error of that exchange, the frames written are exactly the
\* first k of the six (each of the k-1 before was written and answered
\* well, none is written a second time or undone), and nothing follows the
\* failed exchange; when the D write fails, P and I have been written and
\* acknowledged and no 0x18 frame is written.
C7_EnableNoRollback ==
    hist.call = "enable" =>
        LET ops == SentOps(hist.io)
            k == FirstBad(hist.s, 6)
        IN  k # 0 =>
              /\ ~hist.ok /\ hist.err = FaultErr(hist.s[k])
              /\ ops = SubSeq(<<29, 20, 21, 22, 23, 24>>, 1, k)
              /\ \A j \in 1 .. k - 1 : Writes(hist.io)[j].ok
              /\ CountEv(hist.io, "read") = IF hist.s[k].w THEN k ELSE k - 1
              /\ hist.io[Len(hist.io)].ev = IF hist.s[k].w THEN "read" ELSE "write"
              /\ k = 5 => (ops = <<29, 20, 21, 22, 23>>
                           /\ \A i \in 1 .. Len(ops) : ops[i] # 24)

\* C7 witness: the D write of an enable failed after P and I were written.
C7_Witness ==
    /\ hist.call = "enable" /\ ~hist.ok
    /\ FirstBad(hist.s, 6) = 5
    /\ SentOps(hist.io) = <<29, 20, 21, 22, 23>>

\* C8: monitor returns a snapshot exactly when its seven exchanges all
\* succeed; when the k-th is the first to fail it returns that exchange's
\* error and no data, having written k frames and none after.
C8_MonitorAborts ==
    hist.call = "monitor" =>
        LET k == FirstBad(hist.s, 7)
        IN  /\ hist.ok <=> k = 0
            /\ k # 0 => /\ hist.err = FaultErr(hist.s[k])
                        /\ hist.val = <<>>
                        /\ Len(Writes(hist.io)) = k
                        /\ hist.io[Len(hist.io)].ev \in {"write", "read"}
            /\ hist.ok =>
                  /\ Len(Writes(hist.io)) = 7
                  /\ DOMAIN hist.val =
                         {"timestamp", "tec_temperature", "pcb_temperature",
                          "humidity", "dew_point_temperature", "tec_voltage",
                          "tec_current", "tec_power_level"}
                  /\ hist.val.tec_temperature = F32FromLeBytes(hist.s[1].data)
                  /\ hist.val.pcb_temperature = F32FromLeBytes(hist.s[2].data)
                  /\ hist.val.humidity = F32FromLeBytes(hist.s[3].data)
                  /\ hist.val.dew_point_temperature = F32FromLeBytes(hist.s[4].data)
                  /\ hist.val.tec_power_level = hist.s[7].data[1]

\* C8 witness: the humidity read (the third) failed and monitor returned
\* an error and no data after three frames.
C8_Witness ==
    /\ hist.call = "monitor" /\ ~hist.ok
    /\ FirstBad(hist.s, 7) = 3
    /\ Len(Writes(hist.io)) = 3
    /\ hist.val = <<>>

\* C9: the first thing monitor does is read the wall clock, once; the
\* frames it then writes are a prefix of the op-codes 0x01, 0x1F, 0x02,
\* 0x03, 0x23, 0x24, 0x08, all seven when it returns Ok, and the snapshot
\* carries the time read at the start.
C9_MonitorOrder ==
    hist.call = "monitor" =>
        /\ hist.io[1].ev = "Utc::now"
        /\ hist.io[1].t = utc
        /\ CountEv(hist.io, "Utc::now") = 1
        /\ IsPrefix(SentOps(hist.io), <<1, 31, 2, 3, 35, 36, 8>>)
        /\ \A i \in 1 .. Len(Writes(hist.io)) :
               SentData(hist.io)[i] = <<0, 0, 0, 0>>
        /\ hist.ok => /\ Len(SentOps(hist.io)) = 7
                      /\ hist.val.timestamp = hist.io[1].t

\* C9 witness: a snapshot taken after the clock has moved, stamped with
\* the time read before the first of its seven frames.
C9_Witness ==
    /\ hist.call = "monitor" /\ hist.ok
    /\ utc > 0
    /\ hist.val.timestamp = utc
    /\ hist.io[1].ev = "Utc::now" /\ hist.io[2].ev = "write"
    /\ SentOps(hist.io) = <<1, 31, 2, 3, 35, 36, 8>>

-----------------------------------------------------------------------------
(* Properties of the application (checked under Spec).                      *)

\* C5: whenever a client has been returned as ready (the application is in
\* State::Running), the status the driver holds from the client's
\* heartbeats has BOARD_INIT.
C5_NeverUninitialized ==
    state = "Running" => contains(tec_status, BOARD_INIT)

\* The exchange ending at event i of the log failed: a write that failed,
\* a read that failed, or a read whose bytes send_cmd rejects.
FailedAt(io, i) ==
    \/ io[i].ev = "write" /\ ~io[i].ok
    \/ /\ io[i].ev = "read"
       /\ \/ ~io[i].ok
          \/ io[i].buf[2] # (io[i - 1].bytes[2] + 127) % 256
          \/ ~ChecksumMatches(io[i].buf)

\* C10: in a poll round, the I/O call that follows a failed exchange
\* (heartbeat or one of monitor's reads) is the reopening of the serial
\* port: no error text is set and no frame is written before it.
C10_ResetBeforeError ==
    hist.call = "Tick" =>
        \A i \in 1 .. Len(hist.io) :
            FailedAt(hist.io, i) =>
                (i < Len(hist.io) /\ hist.io[i + 1].ev = "open")

\* A poll round that ran (the interval had passed), and how it went.
Polled(h) == h.call = "Tick" /\ h.s # <<>>
HeartBeatFailed(h) == Polled(h) /\ ~Good(h.s[1])
ReopenFailed(h) == HeartBeatFailed(h) /\ h.o[1] # "ok"
MonitorFailed(h) ==
    /\ Polled(h) /\ ~ReopenFailed(h)
    /\ \E k \in 2 .. 8 : ~Good(h.s[k])

\* C11: a poll round in which the heartbeat fails and the port cannot be
\* reopened sets the error text and changes neither the stored status nor
\* any of the seven windows; a poll round in which monitor fails changes
\* no window.
C11_StaleButVisible ==
    [][/\ ReopenFailed(hist') =>
              /\ error_text'.some
              /\ tec_status' = tec_status
              /\ chart' = chart
       /\ MonitorFailed(hist') =>
              /\ error_text'.some
              /\ chart' = chart]_vars

\* C11 witness: windows that hold a sample, after a poll round whose
\* heartbeat failed and whose reopening failed.
C11_Witness ==
    /\ ReopenFailed(hist)
    /\ error_text.some
    /\ \A c \in Metrics : Len(chart[c].data_points) = 1

-----------------------------------------------------------------------------
(* Properties of reset_connection (checked under SpecTec).                  *)

\* C12: reset_connection first closes the handle the client holds and then
\* opens the device: whenever it opens, the process holds no other handle.
C12_CloseBeforeOpen ==
    hist.call = "reset_connection" =>
        /\ hist.io[1].ev = "close"
        /\ \A i \in 1 .. Len(hist.io) :
               hist.io[i].ev = "open" => hist.io[i].held = {}

\* C13: reset_connection writes and reads no frame; it opens the path the
\* client was opened with and configures the port as Tec::new does (115200
\* baud, 8 data bits, 1 stop bit, no parity, no flow control); the path of
\* the client stays what it was.
C13_ResetConnectionTransportOnly ==
    /\ hist.call = "reset_connection" =>
          /\ \A i \in 1 .. Len(hist.io) :
                 hist.io[i].ev \in {"open", "reconfigure", "close"}
          /\ hist.io[1].ev = "open"
          /\ hist.io[1].path = port_ident
          /\ CountEv(hist.io, "open") = 1
          /\ hist.ok => (hist.io[2].ev = "reconfigure" /\ hist.io[2].ok)
    /\ hist.call \in {"reset_connection", "Tec::new"} =>
          \A i \in 1 .. Len(hist.io) :
              hist.io[i].ev = "reconfigure" =>
                  hist.io[i].settings =
                      [baud_rate |-> 115200, char_size |-> 8, stop_bits |-> 1,
                       parity |-> "ParityNone", flow_control |-> "FlowNone"]
    /\ (hist.call = "Tec::new" /\ hist.o[1] = "ok") => hist.io[1].path = hist.args[1]

\* C13 witness: a client opened on COM4 has reopened its port.
C13_Witness ==
    /\ hist.call = "reset_connection" /\ hist.ok
    /\ port_ident = "COM4"
    /\ hist.io[1].path = "COM4"
    /\ Len(Writes(hist.io)) = 0

-----------------------------------------------------------------------------
(* Properties of heart_beat (checked under SpecTec).                        *)

\* The status word of a heartbeat response has a bit above bit 17 set.
HighBits(data) == data[3] >= 4 \/ data[4] # 0

\* C14: a heartbeat whose exchange succeeds returns Ok with the status word
\* modulo 2^18, whatever bits 18..31 are; the word 1 gives BOARD_INIT alone
\* and the word 3 gives BOARD_INIT and POWER_OK alone.
C14_StatusMasked ==
    (hist.call = "heart_beat" /\ Good(hist.s[1])) =>
        LET data == hist.s[1].data
        IN  /\ hist.ok
            /\ hist.val = (data[1] + 256 * data[2] + 65536 * data[3]) % 262144
            /\ data = <<1, 0, 0, 0>> => hist.val = BOARD_INIT
            /\ data = <<3, 0, 0, 0>> => hist.val = BOARD_INIT + POWER_OK
            /\ contains(hist.val, BOARD_INIT) <=> data[1] % 2 = 1
            /\ contains(hist.val, POWER_OK) <=> (data[1] \div 2) % 2 = 1
            /\ contains(hist.val, LOW_POWER_MODE_ACTIVE) <=> data[3] % 2 = 1

\* C14 witness: a status word with bits 18 and 31 set was decoded to
\* POWER_OK alone.
C14_Witness ==
    /\ hist.call = "heart_beat" /\ hist.ok
    /\ hist.s[1].data = <<2, 0, 4, 128>>
    /\ hist.val = POWER_OK

\* C15 as stated: a heartbeat whose status word has a bit above bit 17 set
\* fails with the invalid-status error.
C15_InvalidStatus ==
    (hist.call = "heart_beat" /\ Good(hist.s[1]) /\ HighBits(hist.s[1].data)) =>
        (~hist.ok /\ hist.err = ERR_STATUS)

\* C15, amended: heartbeat never fails with the invalid-status error; its
\* only errors are those of the exchange, and a status word with bits above
\* bit 17 is accepted.
C15_NeverInvalidStatus ==
    hist.call = "heart_beat" =>
        /\ hist.err # ERR_STATUS
        /\ ~hist.ok => (~Good(hist.s[1]) /\ hist.err = FaultErr(hist.s[1]))
        /\ (Good(hist.s[1]) /\ HighBits(hist.s[1].data)) => hist.ok

\* C15 witness: a heartbeat carrying all 32 bits returned Ok.
C15_Witness ==
    /\ hist.call = "heart_beat" /\ hist.ok
    /\ hist.s[1].data = <<255, 255, 255, 255>>
    /\ hist.val = TecStatus_all

-----------------------------------------------------------------------------
(* Properties of disable (checked under SpecTec).                           *)

\* The frame of disable, byte by byte: 0xAA, 0x18, [1,0,0,0], CRC 0x17E9.
DisableFrame == <<170, 24, 1, 0, 0, 0, 233, 23>>

\* C16: one call of disable writes one frame, DisableFrame, makes at most
\* the one read of its response and no other I/O; two calls in succession
\* write that frame twice, whatever the first call was answered.
C16_DisableFrame ==
    /\ hist.call = "disable" =>
          /\ Len(Writes(hist.io)) = 1
          /\ Writes(hist.io)[1].bytes = DisableFrame
          /\ hist.io[1].ev = "write"
          /\ Len(hist.io) <= 2
          /\ \A i \in 1 .. Len(hist.io) : hist.io[i].ev \in {"write", "read"}
    /\ hist.call = "disable; disable" =>
          /\ Len(Writes(hist.io)) = 2
          /\ Writes(hist.io)[1].bytes = Writes(hist.io)[2].bytes
          /\ Writes(hist.io)[2].bytes = DisableFrame
          /\ Len(hist.io) <= 4

\* C16 witness: disable called again after a call whose exchange failed
\* wrote the same frame a second time.
C16_Witness ==
    /\ hist.call = "disable; disable"
    /\ ~Good(hist.s[1]) /\ hist.ok
    /\ Len(Writes(hist.io)) = 2
    /\ Writes(hist.io)[1].bytes = Writes(hist.io)[2].bytes

-----------------------------------------------------------------------------
(* Properties of the frame codec (checked under SpecCodec).                 *)

\* CRC-16/XMODEM as its definition reads, one message bit at a time: the
\* register is shifted left and 0x1021 is xored in when the bit shifted
\* out differs from the message bit.
RECURSIVE XmodemBits(_, _, _)
XmodemBits(crc, byte, n) ==
    IF n = 0 THEN crc
    ELSE With(IF (crc \div 32768) # ((byte \div Pow2(n - 1)) % 2)
              THEN XorByte[((crc * 2) % 65536) \div 256][16] * 256
                   + XorByte[(crc * 2) % 256][33]
              ELSE (crc * 2) % 65536,
              LAMBDA c : XmodemBits(c, byte, n - 1))

RECURSIVE XmodemRef(_, _)
XmodemRef(crc, bytes) ==
    IF bytes = <<>> THEN crc
    ELSE With(XmodemBits(crc, Head(bytes), 8),
              LAMBDA c : XmodemRef(c, Tail(bytes)))

CodecDone == hist.call = "codec" /\ hist.err # "pending"

\* C17: the encoded request is 0xAA, the op-code, the four payload bytes
\* and the CRC-16/XMODEM of these six bytes, low byte first; decoding the
\* eight bytes gives the op-code and the payload back, and a checksum that
\* is the CRC of the first six bytes.  The check value of the CRC
\* ("123456789" gives 0x31C3) and the heartbeat frame are as published.
C17_CodecRoundTrip ==
    CodecDone =>
        LET op == hist.args[1]
            data == hist.args[2]
            bytes == hist.val.bytes
            decoded == hist.val.decoded
            crc == XmodemRef(0, <<170, op, data[1], data[2], data[3], data[4]>>)
        IN  /\ bytes = <<170, op, data[1], data[2], data[3], data[4],
                         crc % 256, crc \div 256>>
            /\ decoded.fixed = 170
            /\ decoded.op_code = op
            /\ decoded.data = data
            /\ decoded.crc = crc
            /\ decoded.crc = XmodemRef(0, SubSeq(bytes, 1, 6))
            /\ XmodemRef(0, <<49, 50, 51, 52, 53, 54, 55, 56, 57>>) = 12739
            /\ (op = 0 /\ data = <<0, 0, 0, 0>>)
                   => bytes = <<170, 0, 0, 0, 0, 0, 42, 103>>

\* C17 witness: op-code 0xFF with payload FF FF FF FF went through the
\* codec, its checksum bytes differing from each other.
C17_Witness ==
    /\ CodecDone
    /\ hist.args = <<255, <<255, 255, 255, 255>>>>
    /\ hist.val.decoded.op_code = 255
    /\ hist.val.bytes[7] # hist.val.bytes[8]

-----------------------------------------------------------------------------
(* More properties of send_cmd (checked under SpecSend).                    *)

-----------------------------------------------------------------------------
(* Properties of the telemetry windows (checked under SpecChart).           *)

\* The timestamps of a window, front (newest insertion) first.
Stamps(w) == [i \in 1 .. Len(w.data_points) |-> w.data_points[i][1]]

\* C19: in every window every retained sample is at most 300 s older than
\* the front sample.
C19_AllWithinHorizon ==
    \A c \in Metrics :
        \A i \in 1 .. Len(chart[c].data_points) :
            Stamps(chart[c])[1] - Stamps(chart[c])[i] <= 300000

\* C20: an append leaves the inserted sample in front of the samples held
\* before, less some at the back: those removed are exactly the back
\* samples whose timestamp is more than 300 s below the inserted one, so
\* the sample left at the back is at most 300 s older; after appends at 0,
\* 100, 200 and 400 s the window holds 400, 200 and 100 s.
C20_EvictStrictlyOlder ==
    hist.call = "ChartGroup::update" =>
        \A c \in Metrics :
            LET t == hist.args[1].timestamp
                pushed == <<t>> \o Stamps(hist.val[c])
                kept == Stamps(chart[c])
            IN  /\ Len(kept) >= 1
                /\ IsPrefix(kept, pushed)
                /\ \A i \in Len(kept) + 1 .. Len(pushed) : t - pushed[i] > 300000
                /\ t - kept[Len(kept)] <= 300000
                /\ pushed = <<400000, 200000, 100000, 0>>
                       => kept = <<400000, 200000, 100000>>

\* C21: the windows change only in an append, which leaves the inserted
\* sample at the front of every window (so no window is empty after it);
\* a step of the wall clock alone leaves every window as it was.
C21_NeverSilentlyEmptied ==
    [][/\ chart' # chart => hist'.call = "ChartGroup::update"
       /\ hist'.call = "ChartGroup::update" =>
              \A c \in Metrics :
                  /\ Len(chart'[c].data_points) >= 1
                  /\ chart'[c].data_points[1] =
                         <<hist'.args[1].timestamp, MetricValue(hist'.args[1], c)>>
       /\ utc' # utc => chart' = chart]_vars

\* C21 witness: a sample stamped 0 s is still in the window when the wall
\* clock reads 400 s and nothing was appended since.
C21_Witness ==
    /\ hist.call = ""
    /\ utc = 400000
    /\ Stamps(chart.tec_temp_chart) = <<0>>

\* C22: an append never raises min and never lowers max, and leaves both
\* as they were when the value is inside [min, max]; no step shrinks the
\* range of a window.
C22_BoundsOnlyGrow ==
    [][/\ \A c \in Metrics :
              /\ chart'[c].min <= chart[c].min
              /\ chart'[c].max >= chart[c].max
       /\ hist'.call = "ChartGroup::update" =>
              \A c \in Metrics :
                  LET value == MetricValue(hist'.args[1], c)
                  IN  (chart'[c].min # chart[c].min \/ chart'[c].max # chart[c].max)
                          => (value < chart[c].min \/ value > chart[c].max)]_vars

\* C22 witness: a window whose range has grown took a value inside it and
\* kept the grown range.
C22_Witness ==
    /\ hist.call = "ChartGroup::update"
    /\ hist.val.pcb_temp_chart.min < ChartGroup_default.pcb_temp_chart.min
    /\ hist.args[1].pcb_temperature = 25 * Den
    /\ chart.pcb_temp_chart.min = hist.val.pcb_temp_chart.min
    /\ chart.pcb_temp_chart.max = hist.val.pcb_temp_chart.max

\* C23: for an append of value to a window with bounds [min, max]:
\* value > max gives max' = value + (value - min) / 20 and min' = min;
\* value < min gives min' = value - (min - value) / 20 and max' = max;
\* otherwise both stay.  With bounds [0, 20] the value 25 gives 26.25, and
\* the value 10 leaves [0, 26.25].
C23_RescaleRule ==
    hist.call = "ChartGroup::update" =>
        \A c \in Metrics :
            LET value == MetricValue(hist.args[1], c)
                min == hist.val[c].min
                max == hist.val[c].max
            IN  /\ value > max =>
                       /\ 20 * (chart[c].max - value) = value - min
                       /\ chart[c].min = min
                /\ value < min =>
                       /\ 20 * (value - chart[c].min) = min - value
                       /\ chart[c].max = max
                /\ (min <= value /\ value <= max) =>
                       (chart[c].min = min /\ chart[c].max = max)
                /\ (min = 0 /\ max = 20 * Den /\ value = 25 * Den) =>
                       4 * chart[c].max = 105 * Den
                /\ (min = 0 /\ 4 * max = 105 * Den /\ value = 10 * Den) =>
                       (chart[c].min = 0 /\ 4 * chart[c].max = 105 * Den)

\* C23 witness: the TEC temperature window, grown to [0, 26.25] by a sample
\* of 25, has taken a sample of 10; and the PCB window has grown downwards.
C23_Witness ==
    /\ hist.call = "ChartGroup::update"
    /\ hist.val.tec_temp_chart.min = 0
    /\ 4 * hist.val.tec_temp_chart.max = 105 * Den
    /\ hist.args[1].tec_temperature = 10 * Den
    /\ 4 * chart.tec_temp_chart.max = 105 * Den
    /\ chart.pcb_temp_chart.min = 0 - 5 * Den - (25 * Den) \div 20

-----------------------------------------------------------------------------
(* Properties of the hover resolver (checked under SpecHover).              *)

\* The draws logged by build_chart.
Draws == IF hist.call = "build_chart" THEN hist.io ELSE <<>>

\* C24: with data_size > 0, every index the resolver returns, whatever the
\* cursor position (left of the viewport and past its right edge included)
\* and the width (0 included), is in 0 .. data_size - 1.
C24_HoverIndexInBounds ==
    \A k \in 1 .. Len(Draws) :
        Draws[k].hover_index # <<>> =>
            /\ Draws[k].hover_index[1] >= 0
            /\ Draws[k].hover_index[1] <= hist.args[1] - 1

\* C24 witness: indices were returned for a cursor left of the viewport
\* and for one past its right edge, in a viewport of width 0 holding 10
\* samples.
C24_Witness ==
    /\ Len(Draws) = 2
    /\ hist.args = <<10, 0, 20>>
    /\ Draws[1].x_pos_option = <<0>> /\ Draws[1].hover_index = <<9>>
    /\ Draws[2].x_pos_option = <<150>> /\ Draws[2].hover_index = <<0>>

\* The inversion at the edges and along the axis, for the draws with a
\* cursor position in a window that holds samples.
Inversion(k) ==
    LET data_size == hist.args[1]
        bounds_width == hist.args[2]
        bounds_x == hist.args[3]
        x == Draws[k].x_pos_option[1]
        i == Draws[k].hover_index[1]
    IN  /\ x = bounds_x => i = data_size - 1
        /\ x = bounds_x + bounds_width => i = 0
        /\ \A j \in 1 .. Len(Draws) :
               (Draws[j].x_pos_option # <<>> /\ Draws[j].x_pos_option[1] >= x)
                   => Draws[j].hover_index[1] <= i
        /\ (data_size = 10 /\ bounds_x = 0 /\ bounds_width = 100) =>
               /\ x = 0 => i = 9
               /\ x = 100 => i = 0

\* C25 as stated: the left edge resolves to data_size - 1, the right edge
\* to 0, and the index never increases as the cursor moves right; 10
\* samples, x = 0, width = 100: cursor 0 gives 9 and cursor 100 gives 0.
C25_HoverInversion ==
    \A k \in 1 .. Len(Draws) :
        (hist.args[1] > 0 /\ Draws[k].x_pos_option # <<>>) => Inversion(k)

\* C25, amended: the same in a viewport of positive width; in a viewport
\* of width 0 the two edges are one pixel, which resolves to data_size - 1,
\* and the index still never increases as the cursor moves right.
C25_HoverInversionPositiveWidth ==
    \A k \in 1 .. Len(Draws) :
        (hist.args[1] > 0 /\ Draws[k].x_pos_option # <<>>) =>
            IF hist.args[2] > 0
            THEN Inversion(k)
            ELSE /\ Draws[k].x_pos_option[1] = hist.args[3]
                        => Draws[k].hover_index[1] = hist.args[1] - 1
                 /\ \A j \in 1 .. Len(Draws) :
                        (Draws[j].x_pos_option # <<>>
                         /\ Draws[j].x_pos_option[1] >= Draws[k].x_pos_option[1])
                            => Draws[j].hover_index[1] <= Draws[k].hover_index[1]

\* C25 witness: 10 samples in the viewport x = 0, width = 100: the cursor
\* at 0 resolved to 9 and then, at 100, to 0.
C25_Witness ==
    /\ Len(Draws) = 2
    /\ hist.args = <<10, 100, 0>>
    /\ Draws[1].x_pos_option = <<0>> /\ Draws[1].hover_index = <<9>>
    /\ Draws[2].x_pos_option = <<100>> /\ Draws[2].hover_index = <<0>>

\* C26: the resolver returns no index exactly when data_size is 0 or the
\* cursor has no position.
C26_NoneIffNoDataOrNoCursor ==
    \A k \in 1 .. Len(Draws) :
        Draws[k].hover_index = <<>>
            <=> (hist.args[1] = 0 \/ Draws[k].x_pos_option = <<>>)

\* C26 witness: in a window of 3 samples a draw without a cursor position
\* gave no index and a draw with a cursor left of the viewport gave one.
C26_Witness ==
    /\ Len(Draws) = 2
    /\ hist.args[1] = 3
    /\ Draws[1].x_pos_option = <<>> /\ Draws[1].hover_index = <<>>
    /\ Draws[2].x_pos_option = <<0 - 10>> /\ Draws[2].hover_index = <<2>>

-----------------------------------------------------------------------------
(* Properties of the settings on disk (checked under SpecSettings).         *)

\* The step is a load_settings of the directory as it is now.
LoadStep == hist'.call = "load_settings" /\ hist'.args = <<files>> /\ utc' = utc

\* The names load_settings gives to backups.
BackupNames == {BackupName(t) : t \in SettingsTimes}

\* C27: when a setter called with a value other than the current one has
\* returned Ok, a load_settings of the directory returns the settings as
\* they were before the setter with that one field set to the value.
C27_SettingsRoundTrip ==
    [][(/\ hist.call = "set_value" /\ hist.ok
        /\ hist.val[hist.args[1]] # hist.args[2]
        /\ LoadStep)
           => app_settings' = [hist.val EXCEPT ![hist.args[1]] = hist.args[2]]]_vars

\* C27 witness: set_enable_on_startup(true) on the defaults wrote the file
\* and the next load returned enable_on_startup = true, the rest default.
C27_Witness ==
    /\ hist.call = "load_settings"
    /\ SETTINGS_FILE \in DOMAIN files
    /\ hist.args = <<files>>
    /\ app_settings = [Settings_default EXCEPT !.enable_on_startup = TRUE]

\* The settings file of the directory is a JSON object whose version is
\* not 1, or whose version is 1 and whose data is no Settings.
Unloadable(dir) ==
    /\ SETTINGS_FILE \in DOMAIN dir
    /\ dir[SETTINGS_FILE].json
    /\ \/ dir[SETTINGS_FILE].version # JInt(1)
       \/ ~Settings_deserialize(dir[SETTINGS_FILE].data).ok

\* C28: load_settings of a directory whose settings file is unloadable
\* returns the defaults and leaves the file's content under a
\* cryo_settings_backup_* name, the settings file gone; when the directory
\* held only that file, a write_to_disk that follows and returns Ok leaves
\* two files: the backup and the settings file with the default content.
C28_UnloadableKept ==
    [][/\ (Unloadable(files) /\ LoadStep) =>
              /\ app_settings' = Settings_default
              /\ SETTINGS_FILE \notin DOMAIN files'
              /\ \E b \in BackupNames \cap DOMAIN files' :
                     files'[b] = files[SETTINGS_FILE]
       /\ (/\ hist.call = "load_settings"
           /\ Unloadable(hist.args[1])
           /\ DOMAIN hist.args[1] = {SETTINGS_FILE}
           /\ hist'.call = "write_to_disk" /\ hist'.ok) =>
              \E b \in BackupNames :
                  /\ DOMAIN files' = {b, SETTINGS_FILE}
                  /\ files'[b] = hist.args[1][SETTINGS_FILE]
                  /\ files'[SETTINGS_FILE] = DEFAULT_SETTING_PRETTY]_vars

\* C29: load_settings of a directory without a settings file returns the
\* defaults and leaves the directory as it is; a write_to_disk that
\* follows and returns Ok leaves the settings file with the version-1
\* default content, and no cryo_settings_old.json.
C29_FirstWrite ==
    [][/\ (SETTINGS_FILE \notin DOMAIN files /\ LoadStep) =>
              /\ app_settings' = Settings_default
              /\ files' = files
       /\ (/\ hist.call = "load_settings"
           /\ SETTINGS_FILE \notin DOMAIN hist.args[1]
           /\ hist'.call = "write_to_disk" /\ hist'.ok) =>
              /\ SETTINGS_FILE \in DOMAIN files'
              /\ files'[SETTINGS_FILE] = DEFAULT_SETTING_PRETTY
              /\ SETTINGS_TEMP_FILE \notin DOMAIN files'
              /\ DOMAIN files' \ {SETTINGS_FILE}
                     = DOMAIN hist.args[1] \ {SETTINGS_TEMP_FILE}]_vars

\* C29 witness: after a load of the empty directory, write_to_disk has
\* returned Ok and the settings file is the only file.
C29_Witness ==
    /\ hist.call = "write_to_disk" /\ hist.ok
    /\ hist.args = <<NoFiles>>
    /\ DOMAIN files = {SETTINGS_FILE}
    /\ files[SETTINGS_FILE] = DEFAULT_SETTING_PRETTY

-----------------------------------------------------------------------------
(* Properties of the poll cadence (checked under Spec).                     *)

\* The handler of h put a frame on the wire.
SentFrame(h) == \E i \in 1 .. Len(h.io) : h.io[i].ev = "write" /\ h.io[i].ok

\* C30: a Tick that comes 500 ms or less after the time kept from the last
\* round sends no frame, and every Tick that sends a frame, whether its
\* round fails or not, keeps its own time for the Ticks after it: so two
\* rounds are always more than 500 ms apart.
C30_PollCadence ==
    [][(Idle /\ hist'.call = "Tick") =>
           /\ instant - last_sample_time <= UPDATE_INTERVALL_MS
                  => ~SentFrame(hist')
           /\ SentFrame(hist') => last_sample_time' = instant]_vars

-----------------------------------------------------------------------------
(* Properties of the windows under every message of the running view       *)
(* (checked under SpecMessages).                                            *)

\* The window w after one append at time t: the sample it took is the one
\* now at its front.
AppendedAt(before, after, t) ==
    /\ after.data_points # <<>>
    /\ after.data_points[1][1] = t
    /\ after = push_data(before, t, after.data_points[1][2])

\* C31: the telemetry windows change only in a Tick in which monitor
\* returned a complete snapshot (the port was not left closed and all seven
\* reads succeeded), and then each window changes by one append of a sample
\* with the time of the snapshot; no failed round and no Enable, Disable,
\* settings or CloseModal message changes the samples or bounds of a window.
C31_WindowsOnlyByAppend ==
    [][chart' # chart =>
           /\ Polled(hist')
           /\ ~ReopenFailed(hist')
           /\ ~MonitorFailed(hist')
           /\ \A c \in Metrics : AppendedAt(chart[c], chart'[c], utc)]_vars

\* C31 witness: windows that hold a sample outside their first bounds,
\* after a settings message whose write to the settings file failed.
C31_Witness ==
    /\ hist.call = "UpdateMaxPower"
    /\ hist.o = <<"open_fails">>
    /\ error_text = Some("Failed to save settings", "open_fails")
    /\ app_settings.max_power = 80
    /\ Len(chart["tec_temp_chart"].data_points) = 1
    /\ chart["tec_temp_chart"].max > 20 * Den

-----------------------------------------------------------------------------
(* Properties of the windows over the whole sequence of appends (checked    *)
(* under SpecChart, where hist.io holds the snapshots in arrival order).    *)

\* The samples that arrived at window c, oldest first.
Arrivals(c) ==
    [k \in 1 .. Len(hist.io) |->
         <<hist.io[k].timestamp, MetricValue(hist.io[k], c)>>]

\* C32: after any sequence of appends the samples a window retains are the
\* last arrivals, without a gap, in reverse order of arrival: the sample at
\* index i (0-based) is the one that arrived i appends before the last, and
\* the last arrival is at index 0.
C32_ReverseArrivalSuffix ==
    \A c \in Metrics :
        LET kept == chart[c].data_points
            n == Len(hist.io)
        IN  /\ Len(kept) <= n
            /\ n > 0 => Len(kept) >= 1
            /\ \A i \in 1 .. Len(kept) : kept[i] = Arrivals(c)[n - i + 1]

\* C32 witness: four appends, the third stamped before the second; the
\* window holds the last two, newest arrival first.
C32_Witness ==
    /\ Len(hist.io) = 4
    /\ hist.io[2].timestamp > hist.io[3].timestamp
    /\ Len(chart["humidty_chart"].data_points) = 2
    /\ chart["humidty_chart"].data_points[1] = <<hist.io[4].timestamp, hist.io[4].humidity>>
    /\ chart["humidty_chart"].data_points[2] = <<hist.io[3].timestamp, hist.io[3].humidity>>
    /\ hist.io[3].humidity # hist.io[4].humidity

-----------------------------------------------------------------------------
(* Properties of the render cache (checked under SpecCache).                *)

\* C33: after an append the cache of every window is cleared, whatever it
\* was before, whether or not the append changed the bounds of the window
\* and whether or not it evicted a sample.
C33_AppendClearsCache ==
    hist.call = "ChartGroup::update" =>
        \A c \in Metrics : ~chart[c].cache_valid

\* C33 witness: an append to drawn windows that left the bounds of the
\* humidity window as they were and evicted nothing from it.
C33_Witness ==
    /\ hist.call = "ChartGroup::update"
    /\ \A c \in Metrics : hist.val[c].cache_valid
    /\ chart["humidty_chart"].min = hist.val["humidty_chart"].min
    /\ chart["humidty_chart"].max = hist.val["humidty_chart"].max
    /\ Len(chart["humidty_chart"].data_points) = 2
    /\ Len(hist.val["humidty_chart"].data_points) = 1

-----------------------------------------------------------------------------
(* Properties of the typed getters (checked under SpecTec).                 *)

\* The op-codes of the command table, by getter.
GetterOpCodes ==
    [tec_temperature |-> 1, humidity |-> 2, dew_point_temperature |-> 3,
     setpoint_offset |-> 4, p_coefficient |-> 5, i_coefficient |-> 6,
     d_coefficient |-> 7, tec_power_level |-> 8, hw_version |-> 9,
     fw_version |-> 10, board_temperature |-> 31, tec_voltage |-> 35,
     tec_current |-> 36]

\* C34: a call of a typed getter writes exactly one frame, with the op-code
\* of the command table for that getter and the payload 0, 0, 0, 0, makes
\* at most the one read of its response and no other I/O; it returns a
\* value exactly when the exchange succeeds, and otherwise the error of the
\* exchange and no value.
C34_GetterOpCodes ==
    hist.call \in DOMAIN GetterOpCodes =>
        /\ Len(Writes(hist.io)) = 1
        /\ hist.io[1].ev = "write"
        /\ SentOps(hist.io) = <<GetterOpCodes[hist.call]>>
        /\ SentData(hist.io) = <<<<0, 0, 0, 0>>>>
        /\ Len(hist.io) <= 2
        /\ \A i \in 1 .. Len(hist.io) : hist.io[i].ev \in {"write", "read"}
        /\ hist.ok <=> Good(hist.s[1])
        /\ ~Good(hist.s[1]) =>
               /\ hist.err = FaultErr(hist.s[1])
               /\ hist.val = <<>>

\* C34 witness: board_temperature sent op-code 0x1F and returned the 10.0
\* it was answered.
C34_Witness ==
    /\ hist.call = "board_temperature"
    /\ hist.ok
    /\ hist.val = 10 * Den
    /\ Writes(hist.io)[1].bytes[2] = 31

-----------------------------------------------------------------------------
(* The age of the back sample as push_data computes it (checked under       *)
(* SpecChart).  A u64 is written as its four 16-bit limbs, lowest first.    *)

\* d as u64, for an i64 d (two's complement; \div rounds down).
AsU64(d) ==
    <<d % 65536,
      (d \div 65536) % 65536,
      ((d \div 65536) \div 65536) % 65536,
      (((d \div 65536) \div 65536) \div 65536) % 65536>>

\* 300 000 ms as u64: 4 * 65536 + 37856.
LimitU64 == <<37856, 4, 0, 0>>

\* a > b on u64.
GreaterU64(a, b) ==
    \E k \in 1 .. 4 : a[k] > b[k] /\ \A j \in k + 1 .. 4 : a[j] = b[j]

-----------------------------------------------------------------------------
(* The marker byte of a response (checked under SpecSend).                  *)

\* C36: 8 bytes that arrive with a byte 0 other than 0xAA, the op-code
\* request op-code + 127 and a checksum that is the CRC of their first six
\* bytes are accepted: send_cmd returns Ok with their payload, and the
\* marker they came with.
C36_MarkerNotChecked ==
    (SendDone /\ ReadOk /\ Arrived[1] # 170
        /\ Arrived[2] = ExpectedOp /\ ChecksumMatches(Arrived))
        => /\ hist.ok
           /\ hist.val.data = SubSeq(Arrived, 3, 6)
           /\ hist.val.fixed = Arrived[1]

\* C36 witness: a response to get-temperature with marker 0x55 and the
\* payload of 100.0 was accepted.
C36_Witness ==
    /\ SendDone /\ ReadOk
    /\ hist.args[1] = 1
    /\ Arrived[1] = 85
    /\ Arrived[2] = 128
    /\ ChecksumMatches(Arrived)
    /\ hist.ok
    /\ hist.val.data = <<0, 0, 200, 66>>

-----------------------------------------------------------------------------
(* Samples and display bounds (checked under SpecValues).                   *)

\* C37: in every window every retained sample's value v satisfies
\* min <= v <= max (as f32 compares) for the bounds the window has now.
C37_SamplesWithinBounds ==
    \A c \in Metrics :
        \A i \in 1 .. Len(chart[c].data_points) :
            /\ LessEq(chart[c].min, chart[c].data_points[i][2])
            /\ LessEq(chart[c].data_points[i][2], chart[c].max)

-----------------------------------------------------------------------------
(* The error text of the running view (checked under SpecMessages).         *)

\* A poll round whose exchanges all went well.
RoundWentWell(h) == Polled(h) /\ \A k \in 1 .. 8 : Good(h.s[k])

\* The place of the first event of the kind ev in the log io (0: none).
FirstEv(io, ev) ==
    IF \E i \in 1 .. Len(io) : io[i].ev = ev
    THEN CHOOSE i \in 1 .. Len(io) :
             io[i].ev = ev /\ \A j \in 1 .. i - 1 : io[j].ev # ev
    ELSE 0

\* C38: a Tick whose heartbeat fails and whose reset_connection succeeds
\* sets the error text with the error of the heartbeat, leaves the stored
\* status as it was, takes the time of the round as last-sample time and
\* calls monitor (Utc::now, then get-temperature on the new port) within
\* the same Tick; in the running view an error text is taken away by
\* CloseModal only, and a round that goes well leaves it as it was.
C38_ErrorTextStays ==
    [][/\ (Idle /\ HeartBeatFailed(hist') /\ ~ReopenFailed(hist')) =>
              LET io == hist'.io
                  set == FirstEv(io, "error_text")
                  now == FirstEv(io, "Utc::now")
              IN  /\ set > 0
                  /\ io[set].msg = "Failed to communicate with coooler"
                  /\ io[set].err = FaultErr(hist'.s[1])
                  /\ FirstEv(io, "open") > 0 /\ FirstEv(io, "open") < set
                  /\ now > set
                  /\ Len(io) > now
                  /\ io[now + 1].ev = "write"
                  /\ io[now + 1].bytes[2] = 1
                  /\ tec_status' = tec_status
                  /\ last_sample_time' = instant
                  /\ error_text'.some
       /\ (state = "Running" /\ error_text.some /\ ~error_text'.some)
              => CloseModal
       /\ (Idle /\ RoundWentWell(hist')) => error_text' = error_text]_vars

\* C38 witness: an error text from a round whose heartbeat failed is still
\* shown after a later round that went well and put a second sample into
\* the windows.
C38_Witness ==
    /\ RoundWentWell(hist)
    /\ error_text = Some("Failed to communicate with coooler", ERR_READ)
    /\ Len(chart["tec_temp_chart"].data_points) = 2

-----------------------------------------------------------------------------
(* The seven windows side by side (checked under SpecChart).                *)

\* C39: the seven windows hold the same number of samples, with the same
\* timestamps in the same order.
C39_SameStamps ==
    \A c \in Metrics, e \in Metrics : Stamps(chart[c]) = Stamps(chart[e])

\* C39 witness: after four appends with different readings, one of them
\* before a backward step of the clock and with a voltage of 0, every
\* window holds the same two timestamps.
C39_Witness ==
    /\ Len(hist.io) = 4
    /\ \E k \in 1 .. 4 : hist.io[k].tec_voltage = 0
    /\ \A c \in Metrics : Stamps(chart[c]) = <<100000, 0>>
    /\ chart["tec_voltage_chart"].data_points[1][2]
           # chart["tec_voltage_chart"].data_points[2][2]

-----------------------------------------------------------------------------
(* The client after reset_connection (checked under SpecTec).               *)

\* C40: reset_connection succeeds exactly when the port is opened and
\* configured.  When it fails it returns the error of the opening and the
\* client has the handle it had, still open, and the path it had; when it
\* succeeds the client has a new open handle in place of the one it had,
\* which is closed, and the path it had.
C40_FailedResetKeepsHandle ==
    [][(Idle /\ hist'.call = "reset_connection") =>
           /\ port_ident' = port_ident
           /\ hist'.ok <=> hist'.o = <<"ok">>
           /\ ~hist'.ok =>
                  /\ hist'.err = IF hist'.o = <<"open_fails">>
                                 THEN ERR_OPEN ELSE ERR_CONFIGURE
                  /\ port' = port
                  /\ port' \in handles'
                  /\ handles' = handles
           /\ hist'.ok =>
                  /\ port' # port
                  /\ port' \in handles'
                  /\ port \notin handles'
                  /\ handles' \ {port'} = handles \ {port}]_vars

\* C40 witness: a client on COM4 whose reset_connection failed at the
\* configuration of the reopened port holds the one handle it held.
C40_Witness ==
    /\ hist.call = "reset_connection"
    /\ ~hist.ok
    /\ hist.err = ERR_CONFIGURE
    /\ port_ident = "COM4"
    /\ port # 0
    /\ handles = {port}

=============================================================================
